---- MODULE Spec2Model ----
(***************************************************************************)
(* State-machine model of the virmachine simulation kernel:                *)
(*   PrototypeRuntime  (src/src/virmachine/environment/runtime.py)         *)
(*   CPUModel          (src/src/virmachine/models/cpu.py)                  *)
(*   MemoryModel       (src/src/virmachine/models/memory.py)               *)
(*   BusModel          (src/src/virmachine/models/bus.py)                  *)
(*   InterruptController (src/src/virmachine/models/interrupt.py)          *)
(*                                                                         *)
(* Time is counted in integer units; one unit is the time of one CPU       *)
(* cycle, so int(delta_time * clock_speed_mhz * 1000) is delta_time.       *)
(* Arithmetic on elapsed_time / simulation_time is exact (no rounding).    *)
(***************************************************************************)
EXTENDS Integers, Sequences, FiniteSets, TLC

VARIABLES
    state,             \* PrototypeRuntime.state (RuntimeState value)
    start_time,        \* PrototypeRuntime.start_time: 0 = None, 1 = stamped
    models,            \* PrototypeRuntime.models: insertion-ordered dict, a
                       \* sequence of [name, obj]
    elapsed_time,      \* PrototypeRuntime.elapsed_time
    simulation_time,   \* PrototypeRuntime.simulation_time
    update_count,      \* PrototypeRuntime.update_count
    simulation_speed,  \* RuntimeConfig.simulation_speed (fixed after Init)
    objs,              \* the model objects of the host program, by identity
    snapshot,          \* the dict last returned by save_snapshot
    last,              \* the last call made by the host and its outcome
    ran                \* sum of delta_time over the update calls made while
                       \* Running since construction or the last reset; -1
                       \* once load_snapshot rewrote the counters

vars == <<state, start_time, models, elapsed_time, simulation_time,
          update_count, simulation_speed, objs, snapshot, last, ran>>

(***************************************************************************)
(* Bounds                                                                  *)
(***************************************************************************)
MaxModels == 2      \* RuntimeConfig.max_models of the runtime under test
MaxTime == 2        \* cap on elapsed_time
MaxDelta == 1       \* largest delta_time passed to update
MaxSpeed == 2       \* largest simulation_speed
MaxCount == 2       \* cap on counters driven directly by the host
MaxUpdates == 2     \* cap on update_count
MemCells == 1       \* number of bytes of a MemoryModel
MaxDevices == 3     \* BusConfig.max_devices of the bus under test
MaxMsgs == 2        \* cap on messages sent over the bus
NumVectors == 3     \* InterruptConfig.num_vectors of the controller
MaxPrio == 1        \* largest interrupt priority registered
MaxPeriod == 2      \* largest period of a generator, in seconds
MaxFires == 2       \* largest fire limit of a generator
MaxComponents == 2  \* cap on the components of the prototype
MaxResults == 2     \* cap on the results a simulator keeps
MaxEvents == 5      \* cap on the events a task records
MaxGenDelta == 3    \* largest delta_time passed to a generator, in seconds

Names == <<"m1", "m2", "m3">>
ObjIds == {"cpu", "mem", "custom", "bus", "ic"}
DeviceIds == {"A", "B", "C"}
Destinations == DeviceIds \cup {"broadcast"}
Vectors == 0..(NumVectors - 1)
NoVector == -1      \* active_interrupt is None
RegNames == {"rax", "rbx"}

(***************************************************************************)
(* Sequence helpers                                                        *)
(***************************************************************************)
Range(s) == {s[i] : i \in 1..Len(s)}

RemoveAt(s, i) == SubSeq(s, 1, i - 1) \o SubSeq(s, i + 1, Len(s))

RECURSIVE SumSeq(_)
SumSeq(s) == IF s = <<>> THEN 0 ELSE Head(s) + SumSeq(Tail(s))

\* position of the entry called name in the dict, 0 when absent
IndexOf(ms, name) ==
    IF \E i \in 1..Len(ms) : ms[i].name = name
    THEN CHOOSE i \in 1..Len(ms) : ms[i].name = name
    ELSE 0

HasName(ms, name) == IndexOf(ms, name) # 0

(***************************************************************************)
(* CPUModel                                                                *)
(***************************************************************************)
CPUModel_new ==
    [kind |-> "cpu", initialized |-> FALSE, running |-> FALSE,
     instruction_count |-> 0, cycle_count |-> 0, registers |-> <<>>]

CPUModel_initialize(c) ==
    [c EXCEPT !.registers = [r \in RegNames |-> 0], !.initialized = TRUE]

CPUModel_reset(c) ==
    [c EXCEPT !.instruction_count = 0, !.cycle_count = 0, !.running = FALSE,
              !.registers = [r \in DOMAIN c.registers |-> 0]]

\* update counting at least one cycle per call
CPUModel_update_atleastone(c, delta_time) ==
    IF c.running
    THEN [c EXCEPT !.cycle_count = @ + (IF delta_time > 0 THEN delta_time
                                         ELSE 1),
                   !.instruction_count = @ + (IF delta_time > 0
                                               THEN delta_time ELSE 1)]
    ELSE c

CPUModel_update(c, delta_time) ==
    IF c.running
    THEN [c EXCEPT !.cycle_count = @ + delta_time,
                   !.instruction_count = @ + delta_time]
    ELSE c

CPUModel_get_state(c) ==
    [running |-> c.running, instruction_count |-> c.instruction_count,
     cycle_count |-> c.cycle_count, registers |-> c.registers]

CPUModel_set_state(c, st) ==
    LET c1 == IF "running" \in DOMAIN st
              THEN [c EXCEPT !.running = st.running] ELSE c
        c2 == IF "instruction_count" \in DOMAIN st
              THEN [c1 EXCEPT !.instruction_count = st.instruction_count]
              ELSE c1
        c3 == IF "cycle_count" \in DOMAIN st
              THEN [c2 EXCEPT !.cycle_count = st.cycle_count] ELSE c2
    IN  IF "registers" \in DOMAIN st
        THEN [c3 EXCEPT !.registers =
                 [r \in (DOMAIN c.registers) \cup (DOMAIN st.registers) |->
                     IF r \in DOMAIN st.registers THEN st.registers[r]
                     ELSE c.registers[r]]]
        ELSE c3

CPUModel_execute_instruction(c) ==
    [c EXCEPT !.instruction_count = @ + 1, !.cycle_count = @ + 1]

CPUModel_start(c) == [c EXCEPT !.running = TRUE]

CPUModel_stop(c) == [c EXCEPT !.running = FALSE]

(***************************************************************************)
(* MemoryModel                                                             *)
(***************************************************************************)
MemoryModel_new ==
    [kind |-> "mem", initialized |-> FALSE, memory |-> <<>>,
     access_count |-> 0]

\* the allocation succeeded
MemoryModel_initialize(m) ==
    [m EXCEPT !.memory = [i \in 1..MemCells |-> 0], !.initialized = TRUE]

MemoryModel_reset(m) ==
    [m EXCEPT !.memory = [i \in 1..Len(m.memory) |-> 0], !.access_count = 0]

MemoryModel_update(m, delta_time) == m

UsedBytes(m) == Cardinality({i \in 1..Len(m.memory) : m.memory[i] # 0})

MemoryModel_get_state(m) ==
    [size_bytes |-> Len(m.memory), access_count |-> m.access_count,
     used_bytes |-> UsedBytes(m)]

MemoryModel_set_state(m, st) ==
    IF "access_count" \in DOMAIN st
    THEN [m EXCEPT !.access_count = st.access_count]
    ELSE m

\* address counts from 0; the write is refused when it falls outside memory
MemoryModel_write_ok(m, address, data) ==
    ~(address < 0 \/ address + Len(data) > Len(m.memory))

MemoryModel_write(m, address, data) ==
    IF MemoryModel_write_ok(m, address, data)
    THEN [m EXCEPT !.access_count = @ + 1,
                   !.memory = [i \in 1..Len(m.memory) |->
                                  IF i > address /\ i <= address + Len(data)
                                  THEN data[i - address] ELSE m.memory[i]]]
    ELSE m

MemoryModel_read(m, address, size) ==
    IF address < 0 \/ address + size > Len(m.memory)
    THEN m
    ELSE [m EXCEPT !.access_count = @ + 1]

(***************************************************************************)
(* A BaseModel subclass written by the host: its initialize may succeed,   *)
(* return False or raise; its other methods do nothing.                    *)
(***************************************************************************)
CustomModel_new == [kind |-> "custom", initialized |-> FALSE]

CustomModel_initialize(x) == [x EXCEPT !.initialized = TRUE]

CustomModel_get_state(x) == [custom |-> TRUE]

(***************************************************************************)
(* BusModel and BusDevice                                                  *)
(***************************************************************************)
\* message_handler: a handler is set; handled: the messages the handler was
\* called with, in call order (the handlers of the host only observe)
BusDevice_new(device_id) ==
    [id |-> device_id, rx_queue |-> <<>>, tx_queue |-> <<>>,
     message_handler |-> FALSE, handled |-> <<>>]

\* rx_queue.put(message) and the call of the handler, if one is set
BusDevice_deliver(device, message) ==
    [device EXCEPT !.rx_queue = Append(@, message),
                   !.handled = IF device.message_handler
                               THEN Append(@, message) ELSE @]

BusDevice_set_message_handler(device) ==
    [device EXCEPT !.message_handler = TRUE]

BusModel_new(rate) ==
    [kind |-> "bus", initialized |-> FALSE, devices |-> <<>>,
     message_count |-> 0, error_count |-> 0, total_bytes |-> 0,
     error_rate |-> rate]

DeviceIndex(b, device_id) ==
    IF \E i \in 1..Len(b.devices) : b.devices[i].id = device_id
    THEN CHOOSE i \in 1..Len(b.devices) : b.devices[i].id = device_id
    ELSE 0

Attached(b, device_id) == DeviceIndex(b, device_id) # 0

BusModel_initialize(b) == [b EXCEPT !.initialized = TRUE]

BusModel_reset(b) ==
    [b EXCEPT !.devices = <<>>, !.message_count = 0, !.error_count = 0,
              !.total_bytes = 0]

\* the draw compared with <=: a message can pass at error_rate 1.0
ErrorDraws_inclusive(rate) ==
    IF rate <= 0 THEN {FALSE} ELSE BOOLEAN

\* random.random() < error_rate, error_rate in percent: the outcomes the
\* draw of one message can have
ErrorDraws(rate) ==
    IF rate <= 0 THEN {FALSE} ELSE IF rate >= 100 THEN {TRUE} ELSE BOOLEAN

\* routing that also hands a broadcast to its sender
BusModel_route_message_echo(b, message, err) ==
    LET counted == [b EXCEPT !.message_count = @ + 1,
                             !.total_bytes = @ + message.nbytes]
    IN  IF err
        THEN [counted EXCEPT !.error_count = @ + 1]
        ELSE IF message.destination = "broadcast"
        THEN [counted EXCEPT !.devices =
                 [i \in 1..Len(b.devices) |->
                     BusDevice_deliver(b.devices[i], message)]]
        ELSE IF Attached(b, message.destination)
        THEN [counted EXCEPT
                 !.devices[DeviceIndex(b, message.destination)] =
                     BusDevice_deliver(@, message)]
        ELSE counted

\* routing that hands a unicast message to the first attached device
BusModel_route_message_first(b, message, err) ==
    LET counted == [b EXCEPT !.message_count = @ + 1,
                             !.total_bytes = @ + message.nbytes]
    IN  IF err
        THEN [counted EXCEPT !.error_count = @ + 1]
        ELSE IF message.destination = "broadcast"
        THEN [counted EXCEPT !.devices =
                 [i \in 1..Len(b.devices) |->
                     IF b.devices[i].id # message.source
                     THEN BusDevice_deliver(b.devices[i], message)
                     ELSE b.devices[i]]]
        ELSE IF Attached(b, message.destination)
        THEN [counted EXCEPT
                 !.devices[1] = BusDevice_deliver(@, message)]
        ELSE counted

\* routing that counts a message without receiver as an error
BusModel_route_message_strict(b, message, err) ==
    LET counted == [b EXCEPT !.message_count = @ + 1,
                             !.total_bytes = @ + message.nbytes]
    IN  IF err
        THEN [counted EXCEPT !.error_count = @ + 1]
        ELSE IF message.destination = "broadcast"
        THEN [counted EXCEPT !.devices =
                 [i \in 1..Len(b.devices) |->
                     IF b.devices[i].id # message.source
                     THEN BusDevice_deliver(b.devices[i], message)
                     ELSE b.devices[i]]]
        ELSE IF Attached(b, message.destination)
        THEN [counted EXCEPT
                 !.devices[DeviceIndex(b, message.destination)] =
                     BusDevice_deliver(@, message)]
        ELSE [counted EXCEPT !.error_count = @ + 1]

\* err is the outcome of the random draw made for this message
BusModel_route_message(b, message, err) ==
    LET counted == [b EXCEPT !.message_count = @ + 1,
                             !.total_bytes = @ + message.nbytes]
    IN  IF err
        THEN [counted EXCEPT !.error_count = @ + 1]
        ELSE IF message.destination = "broadcast"
        THEN [counted EXCEPT !.devices =
                 [i \in 1..Len(b.devices) |->
                     IF b.devices[i].id # message.source
                     THEN BusDevice_deliver(b.devices[i], message)
                     ELSE b.devices[i]]]
        ELSE IF Attached(b, message.destination)
        THEN [counted EXCEPT
                 !.devices[DeviceIndex(b, message.destination)] =
                     BusDevice_deliver(@, message)]
        ELSE counted

\* the number of messages waiting in the tx queues
QueuedTx(b) == SumSeq([i \in 1..Len(b.devices) |-> Len(b.devices[i].tx_queue)])

\* update taking one message from each device (if in place of while)
RECURSIVE BusDrain_one(_, _, _)
BusDrain_one(b, i, draws) ==
    IF i > Len(b.devices) THEN b
    ELSE IF b.devices[i].tx_queue = <<>> THEN BusDrain_one(b, i + 1, draws)
    ELSE LET message == Head(b.devices[i].tx_queue)
             popped == [b EXCEPT !.devices[i].tx_queue = Tail(@)]
         IN  BusDrain_one(BusModel_route_message(popped, message,
                                                 Head(draws)),
                          i + 1, Tail(draws))

\* update taking the newest message of a tx queue first
RECURSIVE BusDrain_lifo(_, _, _)
BusDrain_lifo(b, i, draws) ==
    IF i > Len(b.devices) THEN b
    ELSE IF b.devices[i].tx_queue = <<>> THEN BusDrain_lifo(b, i + 1, draws)
    ELSE LET q == b.devices[i].tx_queue
             message == q[Len(q)]
             popped == [b EXCEPT !.devices[i].tx_queue =
                                     SubSeq(q, 1, Len(q) - 1)]
         IN  BusDrain_lifo(BusModel_route_message(popped, message,
                                                  Head(draws)),
                           i, Tail(draws))

\* the for/while loops of update, from device i on; draws holds one random
\* draw per queued message
RECURSIVE BusDrain(_, _, _)
BusDrain(b, i, draws) ==
    IF i > Len(b.devices) THEN b
    ELSE IF b.devices[i].tx_queue = <<>> THEN BusDrain(b, i + 1, draws)
    ELSE LET message == Head(b.devices[i].tx_queue)
             popped == [b EXCEPT !.devices[i].tx_queue = Tail(@)]
         IN  BusDrain(BusModel_route_message(popped, message, Head(draws)),
                      i, Tail(draws))

BusModel_update(b, draws) == BusDrain(b, 1, draws)

RECURSIVE Gcd(_, _)
Gcd(a, c) == IF c = 0 THEN a ELSE Gcd(c, a % c)

\* error_count / message_count as a reduced fraction
ErrorRatio(b) ==
    IF b.message_count > 0
    THEN LET g == Gcd(b.error_count, b.message_count)
         IN  <<b.error_count \div g, b.message_count \div g>>
    ELSE <<0, 1>>

BusModel_get_state(b) ==
    [device_count |-> Len(b.devices), message_count |-> b.message_count,
     error_count |-> b.error_count, total_bytes |-> b.total_bytes,
     error_rate |-> ErrorRatio(b)]

BusModel_set_state(b, st) ==
    LET b1 == IF "message_count" \in DOMAIN st
              THEN [b EXCEPT !.message_count = st.message_count] ELSE b
        b2 == IF "error_count" \in DOMAIN st
              THEN [b1 EXCEPT !.error_count = st.error_count] ELSE b1
    IN  IF "total_bytes" \in DOMAIN st
        THEN [b2 EXCEPT !.total_bytes = st.total_bytes] ELSE b2

\* attach_device without the test of the capacity
BusModel_attach_result_nofull(b, device_id) ==
    IF Attached(b, device_id) THEN "DuplicateDevice" ELSE "ok"

\* "BusFull", "DuplicateDevice" (both ValueError) or "ok"
BusModel_attach_result(b, device_id) ==
    IF Len(b.devices) >= MaxDevices THEN "BusFull"
    ELSE IF Attached(b, device_id) THEN "DuplicateDevice"
    ELSE "ok"

BusModel_attach_device(b, device_id) ==
    IF BusModel_attach_result(b, device_id) = "ok"
    THEN [b EXCEPT !.devices = Append(@, BusDevice_new(device_id))]
    ELSE b

\* detach_device that also withdraws the messages the device had sent
BusModel_detach_device_purge(b, device_id) ==
    IF Attached(b, device_id)
    THEN LET kept == RemoveAt(b.devices, DeviceIndex(b, device_id))
         IN  [b EXCEPT !.devices =
                 [i \in 1..Len(kept) |->
                     [kept[i] EXCEPT !.rx_queue =
                         SelectSeq(@, LAMBDA m : m.source # device_id)]]]
    ELSE b

BusModel_detach_device(b, device_id) ==
    IF Attached(b, device_id)
    THEN [b EXCEPT !.devices = RemoveAt(@, DeviceIndex(b, device_id))]
    ELSE b

\* BusDevice.send of the attached device device_id
BusDevice_send(b, device_id, message) ==
    [b EXCEPT !.devices[DeviceIndex(b, device_id)].tx_queue =
                  Append(@, message)]

(***************************************************************************)
(* InterruptController                                                     *)
(***************************************************************************)
\* handler: a handler is set (the handlers of the host only observe)
Interrupt_new ==
    [interrupt_type |-> "hardware", priority |-> 0, enabled |-> FALSE,
     count |-> 0, handler |-> FALSE]

InterruptController_new ==
    [kind |-> "ic", initialized |-> FALSE, interrupts |-> <<>>,
     pending_interrupts |-> <<>>, active_interrupt |-> NoVector,
     interrupt_enabled |-> TRUE, total_interrupts |-> 0]

InterruptController_initialize(c) ==
    [c EXCEPT !.interrupts = [v \in Vectors |-> Interrupt_new],
              !.initialized = TRUE]

\* reset that leaves the pending vectors
InterruptController_reset_keeps_pending(c) ==
    [c EXCEPT !.active_interrupt = NoVector, !.total_interrupts = 0,
              !.interrupts = [v \in DOMAIN c.interrupts |->
                                 [c.interrupts[v] EXCEPT !.count = 0]]]

InterruptController_reset(c) ==
    [c EXCEPT !.pending_interrupts = <<>>, !.active_interrupt = NoVector,
              !.total_interrupts = 0,
              !.interrupts = [v \in DOMAIN c.interrupts |->
                                 [c.interrupts[v] EXCEPT !.count = 0]]]

\* list.sort(key = priority, reverse = True): stable, equal priorities keep
\* their order
\* insertion before the elements of equal priority: a sort that is not
\* stable
RECURSIVE InsertDesc_unstable(_, _, _)
InsertDesc_unstable(x, s, table) ==
    IF s = <<>> THEN <<x>>
    ELSE IF table[Head(s)].priority > table[x].priority
    THEN <<Head(s)>> \o InsertDesc_unstable(x, Tail(s), table)
    ELSE <<x>> \o s

RECURSIVE InsertDesc(_, _, _)
InsertDesc(x, s, table) ==
    IF s = <<>> THEN <<x>>
    ELSE IF table[Head(s)].priority >= table[x].priority
    THEN <<Head(s)>> \o InsertDesc(x, Tail(s), table)
    ELSE <<x>> \o s

RECURSIVE SortFrom(_, _, _)
SortFrom(p, acc, table) ==
    IF p = <<>> THEN acc
    ELSE SortFrom(Tail(p), InsertDesc(Head(p), acc, table), table)

SortByPriority(p, table) == SortFrom(p, <<>>, table)

InterruptController_handle_interrupt(c, vector) ==
    [c EXCEPT !.total_interrupts = @ + 1,
              !.interrupts[vector].count = @ + 1,
              !.active_interrupt = NoVector]

\* the handler calls _handle_interrupt makes for vector
InterruptController_handler_calls(c, vector) ==
    IF c.interrupts[vector].handler THEN <<vector>> ELSE <<>>

\* update taking the vector raised first, whatever the priorities
InterruptController_dispatch_fifo(c, delta_time) ==
    IF ~c.interrupt_enabled THEN [c |-> c, handled |-> <<>>]
    ELSE IF c.pending_interrupts # <<>> /\ c.active_interrupt = NoVector
    THEN [c |-> InterruptController_handle_interrupt(
                    [c EXCEPT !.pending_interrupts = Tail(@)],
                    Head(c.pending_interrupts)),
          handled |-> InterruptController_handler_calls(
                          c, Head(c.pending_interrupts))]
    ELSE [c |-> c, handled |-> <<>>]

\* update dispatching every pending vector (while in place of if)
RECURSIVE InterruptController_dispatch_all(_, _)
InterruptController_dispatch_all(c, delta_time) ==
    IF ~c.interrupt_enabled THEN [c |-> c, handled |-> <<>>]
    ELSE IF c.pending_interrupts # <<>> /\ c.active_interrupt = NoVector
    THEN LET sorted == SortByPriority(c.pending_interrupts, c.interrupts)
             rest == InterruptController_dispatch_all(
                         InterruptController_handle_interrupt(
                             [c EXCEPT !.pending_interrupts = Tail(sorted)],
                             Head(sorted)),
                         delta_time)
         IN  [c |-> rest.c,
              handled |-> InterruptController_handler_calls(c, Head(sorted))
                              \o rest.handled]
    ELSE [c |-> c, handled |-> <<>>]

\* update without the test of the global flag
InterruptController_dispatch_forced(c, delta_time) ==
    IF c.pending_interrupts # <<>> /\ c.active_interrupt = NoVector
    THEN LET sorted == SortByPriority(c.pending_interrupts, c.interrupts)
         IN  [c |-> InterruptController_handle_interrupt(
                        [c EXCEPT !.pending_interrupts = Tail(sorted)],
                        Head(sorted)),
              handled |-> InterruptController_handler_calls(c, Head(sorted))]
    ELSE [c |-> c, handled |-> <<>>]

\* update: the controller it leaves and the vectors whose handler it called
\* update that passes over the pending vectors whose enabled flag is false
InterruptController_dispatch_masked(c, delta_time) ==
    LET ready == SelectSeq(c.pending_interrupts,
                           LAMBDA v : c.interrupts[v].enabled)
    IN  IF ~c.interrupt_enabled THEN [c |-> c, handled |-> <<>>]
        ELSE IF ready # <<>> /\ c.active_interrupt = NoVector
        THEN LET sorted == SortByPriority(c.pending_interrupts, c.interrupts)
                 vector == Head(SelectSeq(sorted,
                                          LAMBDA v : c.interrupts[v].enabled))
             IN  [c |-> InterruptController_handle_interrupt(
                            [c EXCEPT !.pending_interrupts =
                                SelectSeq(sorted, LAMBDA v : v # vector)],
                            vector),
                  handled |-> InterruptController_handler_calls(c, vector)]
        ELSE [c |-> c, handled |-> <<>>]

InterruptController_dispatch(c, delta_time) ==
    IF ~c.interrupt_enabled THEN [c |-> c, handled |-> <<>>]
    ELSE IF c.pending_interrupts # <<>> /\ c.active_interrupt = NoVector
    THEN LET sorted == SortByPriority(c.pending_interrupts, c.interrupts)
         IN  [c |-> InterruptController_handle_interrupt(
                        [c EXCEPT !.pending_interrupts = Tail(sorted)],
                        Head(sorted)),
              handled |-> InterruptController_handler_calls(c, Head(sorted))]
    ELSE [c |-> c, handled |-> <<>>]

InterruptController_update(c, delta_time) ==
    InterruptController_dispatch(c, delta_time).c

\* what a handler of the host does when it is called: it returns, it raises
\* an exception, or it calls update() of the controller and returns
HandlerKinds == {"returns", "raises", "updates"}

\* update() with handlers that do more than observe; does[v] is what the
\* handler registered for v does.  Gives the controller the call leaves,
\* the vectors dispatched by the call and by the calls made inside it, in
\* order, and how the call ended ("HandlerError": the exception of a
\* handler left update; the statement after the handler call did not run).
RECURSIVE InterruptController_run(_, _, _)
InterruptController_run(c, does, delta_time) ==
    IF ~c.interrupt_enabled
    THEN [c |-> c, dispatched |-> <<>>, ret |-> "none"]
    ELSE IF c.pending_interrupts # <<>> /\ c.active_interrupt = NoVector
    THEN LET sorted == SortByPriority(c.pending_interrupts, c.interrupts)
             vector == Head(sorted)
             entered == [c EXCEPT !.pending_interrupts = Tail(sorted),
                                  !.active_interrupt = vector,
                                  !.total_interrupts = @ + 1,
                                  !.interrupts[vector].count = @ + 1]
             inner == IF c.interrupts[vector].handler
                      THEN CASE does[vector] = "raises" ->
                                    [c |-> entered, dispatched |-> <<>>,
                                     ret |-> "HandlerError"]
                             [] does[vector] = "updates" ->
                                    InterruptController_run(entered, does,
                                                            delta_time)
                             [] OTHER ->
                                    [c |-> entered, dispatched |-> <<>>,
                                     ret |-> "none"]
                      ELSE [c |-> entered, dispatched |-> <<>>,
                            ret |-> "none"]
         IN  [c |-> IF inner.ret = "none"
                    THEN [inner.c EXCEPT !.active_interrupt = NoVector]
                    ELSE inner.c,
              dispatched |-> <<vector>> \o inner.dispatched,
              ret |-> inner.ret]
    ELSE [c |-> c, dispatched |-> <<>>, ret |-> "none"]

InterruptController_get_state(c) ==
    [interrupt_enabled |-> c.interrupt_enabled,
     total_interrupts |-> c.total_interrupts,
     pending_count |-> Len(c.pending_interrupts),
     active_interrupt |-> c.active_interrupt,
     interrupt_counts |->
         [v \in {w \in DOMAIN c.interrupts : c.interrupts[w].count > 0} |->
             c.interrupts[v].count]]

InterruptController_set_state(c, st) ==
    LET c1 == IF "interrupt_enabled" \in DOMAIN st
              THEN [c EXCEPT !.interrupt_enabled = st.interrupt_enabled]
              ELSE c
    IN  IF "total_interrupts" \in DOMAIN st
        THEN [c1 EXCEPT !.total_interrupts = st.total_interrupts]
        ELSE c1

\* "InvalidVector" (ValueError) or "ok"
InterruptController_vector_result(c, vector) ==
    IF vector \notin DOMAIN c.interrupts THEN "InvalidVector" ELSE "ok"

\* register_interrupt entering a vector that is not in the table
InterruptController_register_interrupt_grows(c, vector, interrupt_type, priority, handler) ==
    [c EXCEPT !.interrupts =
        [v \in (DOMAIN c.interrupts) \cup {vector} |->
            IF v = vector
            THEN [Interrupt_new EXCEPT !.interrupt_type = interrupt_type,
                                       !.priority = priority,
                                       !.handler = handler, !.enabled = TRUE]
            ELSE c.interrupts[v]]]

\* handler: a handler is passed (without one the slot's handler is cleared)
InterruptController_register_interrupt(c, vector, interrupt_type, priority, handler) ==
    IF vector \notin DOMAIN c.interrupts THEN c
    ELSE [c EXCEPT !.interrupts[vector] =
             [@ EXCEPT !.interrupt_type = interrupt_type,
                       !.priority = priority, !.handler = handler,
                       !.enabled = TRUE]]

\* raise_interrupt without the test of the vector's enabled flag
InterruptController_raise_interrupt_unmasked(c, vector) ==
    IF vector \notin DOMAIN c.interrupts THEN c
    ELSE IF ~c.interrupt_enabled THEN c
    ELSE IF vector \notin Range(c.pending_interrupts)
    THEN [c EXCEPT !.pending_interrupts = Append(@, vector)]
    ELSE c

\* raise_interrupt without the test for a vector that is already pending
InterruptController_raise_interrupt_always(c, vector) ==
    IF vector \notin DOMAIN c.interrupts THEN c
    ELSE IF ~c.interrupts[vector].enabled \/ ~c.interrupt_enabled THEN c
    ELSE [c EXCEPT !.pending_interrupts = Append(@, vector)]

InterruptController_raise_interrupt(c, vector) ==
    IF vector \notin DOMAIN c.interrupts THEN c
    ELSE IF ~c.interrupts[vector].enabled \/ ~c.interrupt_enabled THEN c
    ELSE IF vector \notin Range(c.pending_interrupts)
    THEN [c EXCEPT !.pending_interrupts = Append(@, vector)]
    ELSE c

InterruptController_enable_interrupt(c, vector) ==
    IF vector \in DOMAIN c.interrupts
    THEN [c EXCEPT !.interrupts[vector].enabled = TRUE] ELSE c

InterruptController_disable_interrupt(c, vector) ==
    IF vector \in DOMAIN c.interrupts
    THEN [c EXCEPT !.interrupts[vector].enabled = FALSE] ELSE c

InterruptController_enable_all(c) == [c EXCEPT !.interrupt_enabled = TRUE]

\* disable_all that also drops the pending vectors
InterruptController_disable_all_flushing(c) ==
    [c EXCEPT !.interrupt_enabled = FALSE, !.pending_interrupts = <<>>]

InterruptController_disable_all(c) == [c EXCEPT !.interrupt_enabled = FALSE]

(***************************************************************************)
(* PeriodicInterruptGenerator                                              *)
(***************************************************************************)
NoLimit == -1       \* max_count is None
MsPerSecond == 1000

PeriodicInterruptGenerator_new(vector, period_ms, count) ==
    [kind |-> "gen", vector |-> vector, period_ms |-> period_ms,
     max_count |-> count, current_count |-> 0, elapsed_time |-> 0,
     enabled |-> TRUE]

\* max_count is not None and current_count >= max_count
PeriodicInterruptGenerator_exhausted(g) ==
    g.max_count # NoLimit /\ g.current_count >= g.max_count

\* the while loop of update without the break at the fire limit
RECURSIVE PeriodicInterruptGenerator_fire_nobreak(_, _, _)
PeriodicInterruptGenerator_fire_nobreak(g, c, calls) ==
    IF g.elapsed_time >= g.period_ms
    THEN IF g.vector \notin DOMAIN c.interrupts
         THEN [g |-> g, c |-> c, calls |-> Append(calls, g.vector),
               ret |-> "InvalidVector"]
         ELSE PeriodicInterruptGenerator_fire_nobreak(
                  [g EXCEPT !.current_count = @ + 1,
                            !.elapsed_time = @ - g.period_ms],
                  InterruptController_raise_interrupt(c, g.vector),
                  Append(calls, g.vector))
    ELSE [g |-> g, c |-> c, calls |-> calls, ret |-> "none"]

\* an if in place of the while loop of update: one firing per call
PeriodicInterruptGenerator_fire_once(g, c, calls) ==
    IF g.elapsed_time >= g.period_ms
    THEN IF g.vector \notin DOMAIN c.interrupts
         THEN [g |-> g, c |-> c, calls |-> Append(calls, g.vector),
               ret |-> "InvalidVector"]
         ELSE [g |-> [g EXCEPT !.current_count = @ + 1,
                               !.elapsed_time = @ - g.period_ms],
               c |-> InterruptController_raise_interrupt(c, g.vector),
               calls |-> Append(calls, g.vector), ret |-> "none"]
    ELSE [g |-> g, c |-> c, calls |-> calls, ret |-> "none"]

\* the while loop of update with > in its condition: a whole period is left
\* over
RECURSIVE PeriodicInterruptGenerator_fire_strict(_, _, _)
PeriodicInterruptGenerator_fire_strict(g, c, calls) ==
    IF g.elapsed_time > g.period_ms
    THEN IF g.vector \notin DOMAIN c.interrupts
         THEN [g |-> g, c |-> c, calls |-> Append(calls, g.vector),
               ret |-> "InvalidVector"]
         ELSE LET fired == [g EXCEPT !.current_count = @ + 1,
                                     !.elapsed_time = @ - g.period_ms]
                  raised == InterruptController_raise_interrupt(c, g.vector)
              IN  IF PeriodicInterruptGenerator_exhausted(fired)
                  THEN [g |-> fired, c |-> raised,
                        calls |-> Append(calls, g.vector), ret |-> "none"]
                  ELSE PeriodicInterruptGenerator_fire_strict(
                           fired, raised, Append(calls, g.vector))
    ELSE [g |-> g, c |-> c, calls |-> calls, ret |-> "none"]

\* the while loop of update on the controller c: the generator and the
\* controller it leaves, the raise_interrupt calls it made and how it ended
\* ("InvalidVector": raise_interrupt raised ValueError, which ends update)
RECURSIVE PeriodicInterruptGenerator_fire(_, _, _)
PeriodicInterruptGenerator_fire(g, c, calls) ==
    IF g.elapsed_time >= g.period_ms
    THEN IF g.vector \notin DOMAIN c.interrupts
         THEN [g |-> g, c |-> c, calls |-> Append(calls, g.vector),
               ret |-> "InvalidVector"]
         ELSE LET fired == [g EXCEPT !.current_count = @ + 1,
                                     !.elapsed_time = @ - g.period_ms]
                  raised == InterruptController_raise_interrupt(c, g.vector)
              IN  IF PeriodicInterruptGenerator_exhausted(fired)
                  THEN [g |-> fired, c |-> raised,
                        calls |-> Append(calls, g.vector), ret |-> "none"]
                  ELSE PeriodicInterruptGenerator_fire(
                           fired, raised, Append(calls, g.vector))
    ELSE [g |-> g, c |-> c, calls |-> calls, ret |-> "none"]

\* delta_time is in seconds
PeriodicInterruptGenerator_update(g, c, delta_time) ==
    IF ~g.enabled \/ PeriodicInterruptGenerator_exhausted(g)
    THEN [g |-> g, c |-> c, calls |-> <<>>, ret |-> "none"]
    ELSE PeriodicInterruptGenerator_fire(
             [g EXCEPT !.elapsed_time = @ + delta_time * MsPerSecond],
             c, <<>>)

PeriodicInterruptGenerator_reset(g) ==
    [g EXCEPT !.current_count = 0, !.elapsed_time = 0]

PeriodicInterruptGenerator_enable(g) == [g EXCEPT !.enabled = TRUE]

PeriodicInterruptGenerator_disable(g) == [g EXCEPT !.enabled = FALSE]

(***************************************************************************)
(* BaseModel interface, dispatched on the class of the object              *)
(***************************************************************************)
\* the results initialize() of an object can have: "ok" (True), "false"
\* (the exception was caught inside the model) or "raise"
InitOutcomes(o) ==
    CASE o.kind = "mem" -> {"ok", "false"}
      [] o.kind = "custom" -> {"ok", "false", "raise"}
      [] OTHER -> {"ok"}

Model_initialize(o) ==
    CASE o.kind = "cpu" -> CPUModel_initialize(o)
      [] o.kind = "mem" -> MemoryModel_initialize(o)
      [] o.kind = "bus" -> BusModel_initialize(o)
      [] o.kind = "ic" -> InterruptController_initialize(o)
      [] OTHER -> CustomModel_initialize(o)

Model_reset(o) ==
    CASE o.kind = "cpu" -> CPUModel_reset(o)
      [] o.kind = "mem" -> MemoryModel_reset(o)
      [] o.kind = "bus" -> BusModel_reset(o)
      [] o.kind = "ic" -> InterruptController_reset(o)
      [] OTHER -> o

Model_update(o, delta_time, draws) ==
    CASE o.kind = "cpu" -> CPUModel_update(o, delta_time)
      [] o.kind = "mem" -> MemoryModel_update(o, delta_time)
      [] o.kind = "bus" -> BusModel_update(o, draws)
      [] o.kind = "ic" -> InterruptController_update(o, delta_time)
      [] OTHER -> o

Model_get_state(o) ==
    CASE o.kind = "cpu" -> CPUModel_get_state(o)
      [] o.kind = "mem" -> MemoryModel_get_state(o)
      [] o.kind = "bus" -> BusModel_get_state(o)
      [] o.kind = "ic" -> InterruptController_get_state(o)
      [] OTHER -> CustomModel_get_state(o)

Model_set_state(o, st) ==
    CASE o.kind = "cpu" -> CPUModel_set_state(o, st)
      [] o.kind = "mem" -> MemoryModel_set_state(o, st)
      [] o.kind = "bus" -> BusModel_set_state(o, st)
      [] o.kind = "ic" -> InterruptController_set_state(o, st)
      [] OTHER -> o

(***************************************************************************)
(* Localization (src/virmachine/localization.py): the module globals       *)
(* _current_language and _translations.  The texts of zh_CN are written    *)
(* in Latin letters.                                                       *)
(***************************************************************************)
Localization_new ==
    [kind |-> "loc",
     current_language |-> "zh_CN",
     translations |->
         [language \in {"zh_CN", "en_US"} |->
             IF language = "zh_CN"
             THEN [key \in {"simulation_completed", "error", "success"} |->
                      CASE key = "simulation_completed" -> "fangzhen yi wancheng"
                        [] key = "error" -> "cuowu"
                        [] OTHER -> "chenggong"]
             ELSE [key \in {"simulation_completed", "error", "success"} |->
                      CASE key = "simulation_completed" -> "Simulation completed"
                        [] key = "error" -> "Error"
                        [] OTHER -> "Success"]]]

\* set_language that assigns before it tests the code
Localization_set_language_eager(l, language) ==
    [l |-> [l EXCEPT !.current_language = language],
     ret |-> IF language \in DOMAIN l.translations THEN "none"
             ELSE "ValueError"]

Localization_set_language(l, language) ==
    IF language \in DOMAIN l.translations
    THEN [l |-> [l EXCEPT !.current_language = language], ret |-> "none"]
    ELSE [l |-> l, ret |-> "ValueError"]

\* default = "" stands for None: `default or key` takes the key for both
Localization_get_text(l, key, default) ==
    LET fallback == IF default # "" THEN default ELSE key
    IN  IF l.current_language \in DOMAIN l.translations
        THEN LET table == l.translations[l.current_language]
             IN  IF key \in DOMAIN table THEN table[key] ELSE fallback
        ELSE fallback

Localization_add_translation(l, language, key, value) ==
    LET table == IF language \in DOMAIN l.translations
                 THEN l.translations[language] ELSE <<>>
        added == [k \in DOMAIN table \cup {key} |->
                     IF k = key THEN value ELSE table[k]]
    IN  [l EXCEPT !.translations =
            [g \in DOMAIN l.translations \cup {language} |->
                IF g = language THEN added ELSE l.translations[g]]]

(***************************************************************************)
(* VirtualPrototype and Component (src/virmachine/core.py), Simulator and  *)
(* SimulationResult (src/virmachine/simulator.py).  A registered test      *)
(* function is kept by what a call of it does: "passes" or "raises".       *)
(***************************************************************************)
Component_new(name, component_type) ==
    [name |-> name, component_type |-> component_type]

VirtualPrototype_new == [kind |-> "proto", components |-> <<>>]

VirtualPrototype_add_component(p, component) ==
    [p EXCEPT !.components = Append(@, component)]

\* the prototype argument None: reading its components raises AttributeError
NoPrototype == [kind |-> "none"]

\* message is text and detail joined; data carries component_count and
\* components_tested (0 and <<>> when the dict has neither)
SimulationResult_new(success, text, detail, component_count, components_tested) ==
    [success |-> success, text |-> text, detail |-> detail,
     component_count |-> component_count,
     components_tested |-> components_tested]

Simulator_new == [kind |-> "sim", results |-> <<>>, test_functions |-> <<>>]

Simulator_register_test(s, name, test_func) ==
    [s EXCEPT !.test_functions =
        [t \in DOMAIN s.test_functions \cup {name} |->
            IF t = name THEN test_func ELSE s.test_functions[t]]]

Simulator_test_component(s, component) ==
    LET registered == component.component_type \in DOMAIN s.test_functions
        raises == registered /\
                  s.test_functions[component.component_type] = "raises"
    IN  [component_name |-> component.name,
         component_type |-> component.component_type,
         status |-> IF raises THEN "failed" ELSE "passed",
         custom_test |-> registered /\ ~raises]

\* returns the simulator after the call and the result returned
Simulator_run_simulation(s, l, prototype, simulation_type) ==
    IF prototype.kind # "proto"
    THEN LET result == SimulationResult_new(
                           FALSE, Localization_get_text(l, "error", ""),
                           "AttributeError", 0, <<>>)
         IN  [s |-> [s EXCEPT !.results = Append(@, result)],
              result |-> result]
    ELSE IF prototype.components = <<>>
    THEN [s |-> s,
          result |-> SimulationResult_new(
                         FALSE, Localization_get_text(l, "error", ""),
                         "No components in prototype", 0, <<>>)]
    ELSE LET tested == [i \in 1..Len(prototype.components) |->
                           Simulator_test_component(s, prototype.components[i])]
             result == SimulationResult_new(
                           TRUE,
                           Localization_get_text(l, "simulation_completed", ""),
                           simulation_type, Len(prototype.components), tested)
         IN  [s |-> [s EXCEPT !.results = Append(@, result)],
              result |-> result]

Simulator_run_stress_test(s, l, prototype) ==
    Simulator_run_simulation(s, l, prototype, "stress_test")

Simulator_run_performance_test(s, l, prototype) ==
    Simulator_run_simulation(s, l, prototype, "performance_test")

Simulator_clear_results(s) == [s EXCEPT !.results = <<>>]

(***************************************************************************)
(* PrototypeRuntime                                                        *)
(***************************************************************************)
\* no snapshot yet; taken and ready are not part of the dict: taken tells
\* that save_snapshot returned it, ready that every model of a non-empty
\* runtime was initialized when it did
NoSnapshot ==
    [taken |-> FALSE, ready |-> FALSE, state |-> "created",
     elapsed_time |-> 0, simulation_time |-> 0, models |-> <<>>]

\* a call of the host: the operation, its name and numeric arguments (""
\* and 0 when it has none), what it returned or raised, and for update the
\* names of the models whose update it invoked, in call order
Call(op, name, arg, ret, calls) ==
    [op |-> op, name |-> name, arg |-> arg, ret |-> ret, calls |-> calls]

\* the names the host passes to add_model and remove_model: every name in
\* use and the first name not in use (names are interchangeable)
NameChoices(ms) ==
    LET used == {ms[i].name : i \in 1..Len(ms)}
        free == {i \in 1..Len(Names) : Names[i] \notin used}
    IN  used \cup {Names[i] : i \in {j \in free : \A k \in free : j <= k}}

\* the objects registered in the dict ms
Registered(ms) == {ms[i].obj : i \in 1..Len(ms)}

\* one choice of initialize() result for every registered object
OutcomesOf(id) ==
    IF id \in Registered(models) THEN InitOutcomes(objs[id]) ELSE {"ok"}

OutcomeChoices ==
    {[id \in ObjIds |-> CASE id = "mem" -> a [] id = "custom" -> b
                           [] OTHER -> "ok"] :
        a \in OutcomesOf("mem"), b \in OutcomesOf("custom")}

\* the loop of initialize over ms; stops at the first model whose
\* initialize() does not return True
RECURSIVE InitLoop(_, _, _)
InitLoop(ms, os, oc) ==
    IF ms = <<>> THEN [objs |-> os, result |-> "ok", failed |-> ""]
    ELSE LET id == Head(ms).obj
         IN  IF oc[id] = "ok"
             THEN InitLoop(Tail(ms),
                           [os EXCEPT ![id] = Model_initialize(@)], oc)
             ELSE [objs |-> os, result |-> oc[id], failed |-> Head(ms).name]

\* the record a host keeps of initialize() having returned True, when it
\* keeps one
Noted(os, result) ==
    IF "history" \in DOMAIN os /\ result = "ok"
    THEN [os EXCEPT !["history"].initialize_succeeded = TRUE]
    ELSE os

initialize(oc) ==
    LET r == InitLoop(models, objs, oc)
    IN  /\ objs' = Noted(r.objs, r.result)
        /\ state' = CASE r.result = "ok" -> "initialized"
                      [] r.result = "raise" -> "error"
                      [] OTHER -> state
        /\ last' = Call("initialize", r.failed, 0,
                        IF r.result = "ok" THEN "true" ELSE "false", <<>>)
        /\ UNCHANGED <<start_time, models, elapsed_time, simulation_time,
                       update_count, simulation_speed, snapshot, ran>>

\* add_model without the check of the name
add_model_result_nodup(ms, name) ==
    IF Len(ms) >= MaxModels THEN "CapacityExceeded" ELSE "ok"

\* add_model comparing the model count with > instead of >=
add_model_result_offbyone(ms, name) ==
    IF Len(ms) > MaxModels THEN "CapacityExceeded"
    ELSE IF HasName(ms, name) THEN "DuplicateName"
    ELSE "ok"

\* "CapacityExceeded", "DuplicateName" (both ValueError) or "ok"
add_model_result(ms, name) ==
    IF Len(ms) >= MaxModels THEN "CapacityExceeded"
    ELSE IF HasName(ms, name) THEN "DuplicateName"
    ELSE "ok"

\* the dict after add_model(name, obj)
add_model_dict(ms, name, obj) ==
    IF add_model_result(ms, name) = "ok"
    THEN Append(ms, [name |-> name, obj |-> obj])
    ELSE ms

add_model(name, obj) ==
    /\ obj \notin Registered(models) \/ HasName(models, name)
    /\ models' = add_model_dict(models, name, obj)
    /\ last' = Call("add_model", name, 0, add_model_result(models, name), <<>>)
    /\ UNCHANGED <<state, start_time, elapsed_time, simulation_time,
                   update_count, simulation_speed, objs, snapshot, ran>>

remove_model(name) ==
    /\ models' = IF HasName(models, name)
                 THEN RemoveAt(models, IndexOf(models, name))
                 ELSE models
    /\ last' = Call("remove_model", "", 0, "none", <<>>)
    /\ UNCHANGED <<state, start_time, elapsed_time, simulation_time,
                   update_count, simulation_speed, objs, snapshot, ran>>

\* start() accepting a stopped runtime as well
start_from_stopped == {"initialized", "paused", "stopped"}

\* the states start() accepts
start_from == {"initialized", "paused"}

start ==
    /\ IF state \notin start_from
       THEN /\ last' = Call("start", "", 0, "false", <<>>)
            /\ UNCHANGED <<state, start_time>>
       ELSE /\ start_time' = 1
            /\ state' = "running"
            /\ last' = Call("start", "", 0, "true", <<>>)
    /\ UNCHANGED <<models, elapsed_time, simulation_time, update_count,
                   simulation_speed, objs, snapshot, ran>>

pause ==
    /\ IF state # "running"
       THEN /\ last' = Call("pause", "", 0, "false", <<>>)
            /\ UNCHANGED state
       ELSE /\ state' = "paused"
            /\ last' = Call("pause", "", 0, "true", <<>>)
    /\ UNCHANGED <<start_time, models, elapsed_time, simulation_time,
                   update_count, simulation_speed, objs, snapshot, ran>>

resume ==
    /\ IF state # "paused"
       THEN /\ last' = Call("resume", "", 0, "false", <<>>)
            /\ UNCHANGED state
       ELSE /\ state' = "running"
            /\ last' = Call("resume", "", 0, "true", <<>>)
    /\ UNCHANGED <<start_time, models, elapsed_time, simulation_time,
                   update_count, simulation_speed, objs, snapshot, ran>>

stop ==
    /\ IF state \notin {"running", "paused"}
       THEN /\ last' = Call("stop", "", 0, "false", <<>>)
            /\ UNCHANGED state
       ELSE /\ state' = "stopped"
            /\ last' = Call("stop", "", 0, "true", <<>>)
    /\ UNCHANGED <<start_time, models, elapsed_time, simulation_time,
                   update_count, simulation_speed, objs, snapshot, ran>>

\* the loop of update without the is_initialized() test
RECURSIVE UpdateLoop_unchecked(_, _, _, _)
UpdateLoop_unchecked(ms, os, adjusted, draws) ==
    IF ms = <<>> THEN [objs |-> os, calls |-> <<>>]
    ELSE LET m == Head(ms)
             r == UpdateLoop_unchecked(Tail(ms),
                      [os EXCEPT ![m.obj] = Model_update(@, adjusted, draws)],
                      adjusted, draws)
         IN  [objs |-> r.objs, calls |-> <<m.name>> \o r.calls]

\* the loop of update over ms: the objects after it and the names of the
\* models whose update was invoked, in call order
RECURSIVE UpdateLoop(_, _, _, _)
UpdateLoop(ms, os, adjusted_delta, draws) ==
    IF ms = <<>> THEN [objs |-> os, calls |-> <<>>]
    ELSE LET m == Head(ms)
         IN  IF os[m.obj].initialized
             THEN LET r == UpdateLoop(Tail(ms),
                               [os EXCEPT ![m.obj] =
                                   Model_update(@, adjusted_delta, draws)],
                               adjusted_delta, draws)
                  IN  [objs |-> r.objs, calls |-> <<m.name>> \o r.calls]
             ELSE UpdateLoop(Tail(ms), os, adjusted_delta, draws)

\* the vector the message handlers of the host raise on the controller
RaisedVector == 0

\* the calls Bus.update made to message handlers: the growth of handled
HandlerCalls(before, after) ==
    SumSeq([i \in 1..Len(after.devices) |-> Len(after.devices[i].handled)])
    - SumSeq([i \in 1..Len(before.devices) |->
                 Len(before.devices[i].handled)])

\* the objects after update() of the model o = os[id], whose message
\* handlers call raise_interrupt(RaisedVector) on the controller and
\* dispatch it at once
ModelUpdate_wired_eager(os, id, adjusted_delta, draws) ==
    LET after == Model_update(os[id], adjusted_delta, draws)
    IN  IF os[id].kind = "bus" /\ HandlerCalls(os[id], after) > 0
        THEN [os EXCEPT ![id] = after,
                        !["ic"] = InterruptController_update(
                                      InterruptController_raise_interrupt(
                                          @, RaisedVector),
                                      adjusted_delta)]
        ELSE [os EXCEPT ![id] = after]

\* the objects after update() of the model o = os[id], whose message
\* handlers call raise_interrupt(RaisedVector) on the controller
ModelUpdate_wired(os, id, adjusted_delta, draws) ==
    LET after == Model_update(os[id], adjusted_delta, draws)
    IN  IF os[id].kind = "bus" /\ HandlerCalls(os[id], after) > 0
        THEN [os EXCEPT ![id] = after,
                        !["ic"] = InterruptController_raise_interrupt(
                                      @, RaisedVector)]
        ELSE [os EXCEPT ![id] = after]

\* the loop of update over the models of a host whose bus message handlers
\* raise an interrupt
RECURSIVE UpdateLoop_wired(_, _, _, _)
UpdateLoop_wired(ms, os, adjusted_delta, draws) ==
    IF ms = <<>> THEN [objs |-> os, calls |-> <<>>]
    ELSE LET m == Head(ms)
         IN  IF os[m.obj].initialized
             THEN LET r == UpdateLoop_wired(
                               Tail(ms),
                               ModelUpdate_wired(os, m.obj, adjusted_delta,
                                                 draws),
                               adjusted_delta, draws)
                  IN  [objs |-> r.objs, calls |-> <<m.name>> \o r.calls]
             ELSE UpdateLoop_wired(Tail(ms), os, adjusted_delta, draws)

\* the random draws one Bus.update may make: one per queued message
DrawChoices ==
    {d \in [1..QueuedTx(objs["bus"]) -> BOOLEAN] :
        \A i \in DOMAIN d : d[i] \in ErrorDraws(objs["bus"].error_rate)}

\* the counters of the objects os stay within the bounds of the model
WithinBounds(os) ==
    /\ os["cpu"].cycle_count <= MaxCount
    /\ os["ic"].total_interrupts <= MaxCount
    /\ os["bus"].message_count <= MaxMsgs

\* update without the test of the state
update_skips_never == FALSE

\* update returns at once
update_skips == state # "running"

\* update ignoring simulation_speed
adjusted_delta_unscaled(delta_time) == delta_time

adjusted_delta(delta_time) == delta_time * simulation_speed

update(delta_time, draws) ==
    IF update_skips
    THEN /\ last' = Call("update", "", delta_time, "skipped", <<>>)
         /\ UNCHANGED <<state, start_time, models, elapsed_time,
                        simulation_time, update_count, simulation_speed,
                        objs, snapshot, ran>>
    ELSE LET r == UpdateLoop(models, objs, adjusted_delta(delta_time), draws)
         IN  /\ elapsed_time + delta_time <= MaxTime
             /\ update_count < MaxUpdates
             /\ WithinBounds(r.objs)
             /\ objs' = r.objs
             /\ elapsed_time' = elapsed_time + delta_time
             /\ simulation_time' = simulation_time + adjusted_delta(delta_time)
             /\ update_count' = update_count + 1
             /\ ran' = IF ran >= 0 THEN ran + delta_time ELSE ran
             /\ last' = Call("update", "", delta_time, "ran", r.calls)
             /\ UNCHANGED <<state, start_time, models, simulation_speed,
                            snapshot>>

\* update of a runtime whose bus message handlers raise an interrupt
update_wired(delta_time, draws) ==
    IF update_skips
    THEN /\ last' = Call("update", "", delta_time, "skipped", <<>>)
         /\ UNCHANGED <<state, start_time, models, elapsed_time,
                        simulation_time, update_count, simulation_speed,
                        objs, snapshot, ran>>
    ELSE LET r == UpdateLoop_wired(models, objs, adjusted_delta(delta_time),
                                   draws)
         IN  /\ elapsed_time + delta_time <= MaxTime
             /\ update_count < MaxUpdates
             /\ WithinBounds(r.objs)
             /\ objs' = r.objs
             /\ elapsed_time' = elapsed_time + delta_time
             /\ simulation_time' = simulation_time + adjusted_delta(delta_time)
             /\ update_count' = update_count + 1
             /\ ran' = IF ran >= 0 THEN ran + delta_time ELSE ran
             /\ last' = Call("update", "", delta_time, "ran", r.calls)
             /\ UNCHANGED <<state, start_time, models, simulation_speed,
                            snapshot>>

reset ==
    /\ objs' = [id \in DOMAIN objs |->
                   IF id \in Registered(models) THEN Model_reset(objs[id])
                   ELSE objs[id]]
    /\ start_time' = 0
    /\ elapsed_time' = 0
    /\ simulation_time' = 0
    /\ update_count' = 0
    /\ state' = "initialized"
    /\ ran' = 0
    /\ last' = Call("reset", "", 0, "none", <<>>)
    /\ UNCHANGED <<models, simulation_speed, snapshot>>

\* the dict save_snapshot returns
SnapshotOf ==
    [taken |-> TRUE,
     ready |-> /\ models # <<>>
               /\ \A i \in 1..Len(models) : objs[models[i].obj].initialized,
     state |-> state, elapsed_time |-> elapsed_time,
     simulation_time |-> simulation_time,
     models |-> [i \in 1..Len(models) |->
                    [name |-> models[i].name,
                     type |-> objs[models[i].obj].kind,
                     state |-> Model_get_state(objs[models[i].obj])]]]

save_snapshot ==
    /\ snapshot' = SnapshotOf
    /\ last' = Call("save_snapshot", "", 0, "none", <<>>)
    /\ UNCHANGED <<state, start_time, models, elapsed_time, simulation_time,
                   update_count, simulation_speed, objs, ran>>

\* the loop of load_snapshot applying the i-th entry of the snapshot to the
\* i-th registered model, whatever their names
RECURSIVE LoadLoop_positional(_, _, _)
LoadLoop_positional(entries, ms, os) ==
    IF entries = <<>> \/ ms = <<>> THEN os
    ELSE LoadLoop_positional(Tail(entries), Tail(ms),
                             [os EXCEPT ![Head(ms).obj] =
                                 Model_set_state(@, Head(entries).state)])

\* the loop of load_snapshot over the snapshot's model entries
RECURSIVE LoadLoop(_, _, _)
LoadLoop(entries, ms, os) ==
    IF entries = <<>> THEN os
    ELSE LET e == Head(entries)
         IN  IF HasName(ms, e.name)
             THEN LoadLoop(Tail(entries), ms,
                           [os EXCEPT ![ms[IndexOf(ms, e.name)].obj] =
                               Model_set_state(@, e.state)])
             ELSE LoadLoop(Tail(entries), ms, os)

load_snapshot ==
    /\ snapshot.taken
    /\ elapsed_time' = snapshot.elapsed_time
    /\ simulation_time' = snapshot.simulation_time
    /\ objs' = LoadLoop(snapshot.models, models, objs)
    /\ ran' = -1
    /\ last' = Call("load_snapshot", "", 0, "true", <<>>)
    /\ UNCHANGED <<state, start_time, models, update_count, simulation_speed,
                   snapshot>>

(***************************************************************************)
(* Calls the host makes on the model objects themselves                    *)
(***************************************************************************)
OnObject(id, after, op, ret) ==
    /\ objs' = [objs EXCEPT ![id] = after]
    /\ last' = Call(op, id, 0, ret, <<>>)
    /\ UNCHANGED <<state, start_time, models, elapsed_time, simulation_time,
                   update_count, simulation_speed, snapshot, ran>>

cpu_start == OnObject("cpu", CPUModel_start(objs["cpu"]), "cpu.start", "none")

cpu_stop == OnObject("cpu", CPUModel_stop(objs["cpu"]), "cpu.stop", "none")

cpu_execute_instruction ==
    /\ objs["cpu"].instruction_count < MaxCount
    /\ OnObject("cpu", CPUModel_execute_instruction(objs["cpu"]),
                "cpu.execute_instruction", "none")

ic_enable_all ==
    OnObject("ic", InterruptController_enable_all(objs["ic"]),
             "ic.enable_all", "none")

ic_disable_all ==
    OnObject("ic", InterruptController_disable_all(objs["ic"]),
             "ic.disable_all", "none")

\* a call on the controller that names a vector: the call record keeps the
\* vector
OnVector(vector, after, op, ret) ==
    /\ objs' = [objs EXCEPT !["ic"] = after]
    /\ last' = Call(op, "ic", vector, ret, <<>>)
    /\ UNCHANGED <<state, start_time, models, elapsed_time, simulation_time,
                   update_count, simulation_speed, snapshot, ran>>

ic_register_interrupt(vector, priority) ==
    OnVector(vector,
             InterruptController_register_interrupt(objs["ic"], vector,
                                                    "timer", priority,
                                                    FALSE),
             "ic.register_interrupt",
             InterruptController_vector_result(objs["ic"], vector))

\* register_interrupt called with a handler
ic_register_handler(vector, priority) ==
    OnVector(vector,
             InterruptController_register_interrupt(objs["ic"], vector,
                                                    "timer", priority, TRUE),
             "ic.register_interrupt",
             InterruptController_vector_result(objs["ic"], vector))

ic_enable_interrupt(vector) ==
    OnVector(vector, InterruptController_enable_interrupt(objs["ic"], vector),
             "ic.enable_interrupt", "none")

ic_disable_interrupt(vector) ==
    OnVector(vector,
             InterruptController_disable_interrupt(objs["ic"], vector),
             "ic.disable_interrupt", "none")

ic_raise_interrupt(vector) ==
    OnVector(vector, InterruptController_raise_interrupt(objs["ic"], vector),
             "ic.raise_interrupt",
             InterruptController_vector_result(objs["ic"], vector))

\* initialize() and update() of the controller called by the host
ic_initialize ==
    OnObject("ic", InterruptController_initialize(objs["ic"]),
             "ic.initialize", "true")

\* the call record keeps delta_time and the vectors whose handler the
\* update called
ic_update(delta_time) ==
    /\ objs["ic"].total_interrupts < MaxCount
    /\ objs' = [objs EXCEPT !["ic"] =
                    InterruptController_update(@, delta_time)]
    /\ last' = Call("ic.update", "ic", delta_time, "none",
                    InterruptController_dispatch(objs["ic"],
                                                 delta_time).handled)
    /\ UNCHANGED <<state, start_time, models, elapsed_time, simulation_time,
                   update_count, simulation_speed, snapshot, ran>>

\* a call on the bus that names a device: the call record keeps the device
\* id
OnDevice(device_id, after, op, ret) ==
    /\ objs' = [objs EXCEPT !["bus"] = after]
    /\ last' = Call(op, device_id, 0, ret, <<>>)
    /\ UNCHANGED <<state, start_time, models, elapsed_time, simulation_time,
                   update_count, simulation_speed, snapshot, ran>>

bus_attach_device(device_id) ==
    OnDevice(device_id, BusModel_attach_device(objs["bus"], device_id),
             "bus.attach_device",
             BusModel_attach_result(objs["bus"], device_id))

bus_detach_device(device_id) ==
    OnDevice(device_id, BusModel_detach_device(objs["bus"], device_id),
             "bus.detach_device", "none")

\* Bus.update called by the host; the call record keeps the random draws
\* the update made, one per routed message
bus_update(draws) ==
    /\ objs' = [objs EXCEPT !["bus"] = BusModel_update(@, draws)]
    /\ last' = Call("bus.update", "bus", 0, "none", draws)
    /\ UNCHANGED <<state, start_time, models, elapsed_time, simulation_time,
                   update_count, simulation_speed, snapshot, ran>>

\* set_message_handler() of the BusDevice that attach_device(device_id)
\* returned
device_set_message_handler(device_id) ==
    /\ Attached(objs["bus"], device_id)
    /\ ~objs["bus"].devices[DeviceIndex(objs["bus"], device_id)]
              .message_handler
    /\ OnDevice(device_id,
                [objs["bus"] EXCEPT
                    !.devices[DeviceIndex(objs["bus"], device_id)] =
                        BusDevice_set_message_handler(@)],
                "device.set_message_handler", "none")

\* send() of the BusDevice that attach_device(device_id) returned
bus_send(device_id, message) ==
    /\ Attached(objs["bus"], device_id)
    /\ QueuedTx(objs["bus"]) + objs["bus"].message_count < MaxMsgs
    /\ OnDevice(device_id, BusDevice_send(objs["bus"], device_id, message),
                "device.send", "none")

(***************************************************************************)
(* Specifications                                                          *)
(***************************************************************************)
InitObjs ==
    [id \in ObjIds |->
        CASE id = "cpu" -> CPUModel_new
          [] id = "mem" -> MemoryModel_new
          [] id = "bus" -> BusModel_new(0)
          [] id = "ic" -> InterruptController_new
          [] OTHER -> CustomModel_new]

Init ==
    /\ state = "created"
    /\ start_time = 0
    /\ models = <<>>
    /\ elapsed_time = 0
    /\ simulation_time = 0
    /\ update_count = 0
    /\ simulation_speed \in 0..MaxSpeed
    /\ objs = InitObjs
    /\ snapshot = NoSnapshot
    /\ last = Call("new", "", 0, "none", <<>>)
    /\ ran = 0

\* the objects the host of Spec registers
CorePool == {"cpu", "mem", "custom"}

Next ==
    \/ \E oc \in OutcomeChoices : initialize(oc)
    \/ \E name \in NameChoices(models), obj \in CorePool :
           add_model(name, obj)
    \/ \E name \in NameChoices(models) : remove_model(name)
    \/ start
    \/ pause
    \/ resume
    \/ stop
    \/ \E delta_time \in 0..MaxDelta, draws \in DrawChoices :
           update(delta_time, draws)
    \/ reset

Spec == Init /\ [][Next]_vars

\* A host that registers a CPU next to one device model (a bus or an
\* interrupt controller), drives the registered models and ticks the
\* runtime at simulation_speed 1.
TickPool ==
    {"cpu"} \cup
        (CASE "bus" \in Registered(models) -> {"bus"}
           [] "ic" \in Registered(models) -> {"ic"}
           [] OTHER -> {"bus", "ic"})

\* the messages device_id sends: stamped with its own id
MessagesFrom(device_id) ==
    {[source |-> device_id, destination |-> d, nbytes |-> 1] :
        d \in {"B", "broadcast"}}

InitTick == Init /\ simulation_speed = 1

NextTick ==
    \/ \E oc \in OutcomeChoices : initialize(oc)
    \/ \E name \in NameChoices(models), obj \in TickPool :
           add_model(name, obj)
    \/ start
    \/ \E delta_time \in 0..MaxDelta, draws \in DrawChoices :
           update(delta_time, draws)
    \/ "cpu" \in Registered(models) /\ cpu_start
    \/ "ic" \in Registered(models) /\ ic_register_interrupt(0, MaxPrio)
    \/ "ic" \in Registered(models) /\ ic_raise_interrupt(0)
    \/ "bus" \in Registered(models) /\
           \E device_id \in {"A", "B"} : bus_attach_device(device_id)
    \/ "bus" \in Registered(models) /\
           \E device_id \in {"A", "B"} :
               \E message \in MessagesFrom(device_id) :
                   bus_send(device_id, message)

SpecTick == InitTick /\ [][NextTick]_vars

\* A host that registers a CPU and an interrupt controller, drives them,
\* ticks the runtime at simulation_speed 1 and saves and loads snapshots.
SnapPool == {"cpu", "ic"}

NextSnap ==
    \/ \E oc \in OutcomeChoices : initialize(oc)
    \/ \E name \in NameChoices(models), obj \in SnapPool :
           add_model(name, obj)
    \/ start
    \/ \E delta_time \in 0..MaxDelta, draws \in DrawChoices :
           update(delta_time, draws)
    \/ save_snapshot
    \/ load_snapshot
    \/ "ic" \in Registered(models) /\ ic_register_interrupt(0, MaxPrio)
    \/ "ic" \in Registered(models) /\ ic_raise_interrupt(0)

SpecSnap == InitTick /\ [][NextSnap]_vars

\* A host that drives one bus directly: it attaches and detaches devices,
\* sets a handler on device B, sends messages stamped with the sender's id (to device B,
\* attached or not, or to all) and calls Bus.update, on a bus whose
\* error_rate is 0, 0.5 or 1.0.
DeviceNames == <<"A", "B", "C", "D">>
ErrorRates == {0, 50, 100}

\* the device ids the host uses: every attached id and the first id not
\* attached (ids are interchangeable)
DeviceChoices(b) ==
    LET used == {b.devices[i].id : i \in 1..Len(b.devices)}
        free == {i \in 1..Len(DeviceNames) : DeviceNames[i] \notin used}
    IN  used \cup
            {DeviceNames[i] : i \in {j \in free : \A k \in free : j <= k}}

InitBus ==
    /\ state = "created"
    /\ start_time = 0
    /\ models = <<>>
    /\ elapsed_time = 0
    /\ simulation_time = 0
    /\ update_count = 0
    /\ simulation_speed = 1
    /\ \E rate \in ErrorRates :
           objs = [InitObjs EXCEPT !["bus"] = BusModel_new(rate)]
    /\ snapshot = NoSnapshot
    /\ last = Call("new", "", 0, "none", <<>>)
    /\ ran = 0

NextBus ==
    \/ \E device_id \in DeviceChoices(objs["bus"]) :
           bus_attach_device(device_id)
    \/ \E device_id \in DeviceChoices(objs["bus"]) :
           bus_detach_device(device_id)
    \/ device_set_message_handler("B")
    \/ \E device_id \in DeviceChoices(objs["bus"]) :
           \E message \in MessagesFrom(device_id) :
               bus_send(device_id, message)
    \/ \E draws \in DrawChoices : bus_update(draws)

SpecBus == InitBus /\ [][NextBus]_vars

\* the messages or interrupts the model has counted
Model_counted(o) ==
    CASE o.kind = "bus" -> o.message_count
      [] o.kind = "ic" -> o.total_interrupts
      [] OTHER -> 0

\* reset() of the registered model id called by the host; the call record
\* keeps what the model had counted before
model_reset(id) ==
    /\ id \in Registered(models)
    /\ objs' = [objs EXCEPT ![id] = Model_reset(objs[id])]
    /\ last' = Call("model.reset", id, Model_counted(objs[id]), "none", <<>>)
    /\ UNCHANGED <<state, start_time, models, elapsed_time, simulation_time,
                   update_count, simulation_speed, snapshot, ran>>

\* update() of the generator bound to the controller; the call record keeps
\* delta_time, the raise_interrupt calls made and how the update ended
gen_update(delta_time) ==
    LET r == PeriodicInterruptGenerator_update(objs["gen"], objs["ic"],
                                               delta_time)
    IN  /\ r.g.max_count = NoLimit => r.g.current_count <= MaxCount
        /\ r.g.elapsed_time <= (MaxPeriod + MaxGenDelta) * MsPerSecond
        /\ objs' = [objs EXCEPT !["gen"] = r.g, !["ic"] = r.c]
        /\ last' = Call("gen.update", "gen", delta_time, r.ret, r.calls)
        /\ UNCHANGED <<state, start_time, models, elapsed_time,
                       simulation_time, update_count, simulation_speed,
                       snapshot, ran>>

gen_reset ==
    OnObject("gen", PeriodicInterruptGenerator_reset(objs["gen"]),
             "gen.reset", "none")

gen_enable ==
    OnObject("gen", PeriodicInterruptGenerator_enable(objs["gen"]),
             "gen.enable", "none")

gen_disable ==
    OnObject("gen", PeriodicInterruptGenerator_disable(objs["gen"]),
             "gen.disable", "none")

\* A host that binds one generator to vector 0 of an interrupt controller,
\* with a period of whole seconds and a fire limit or none, and drives
\* both: it initializes the controller (before or after the first update of
\* the generator), registers the vector, and updates, resets and switches
\* the generator.
PeriodsMs == {k * MsPerSecond : k \in 1..MaxPeriod}
FireLimits == {NoLimit} \cup 0..MaxFires

InitGen ==
    /\ state = "created"
    /\ start_time = 0
    /\ models = <<>>
    /\ elapsed_time = 0
    /\ simulation_time = 0
    /\ update_count = 0
    /\ simulation_speed = 1
    /\ \E period_ms \in PeriodsMs, count \in FireLimits :
           objs = [id \in ObjIds \cup {"gen"} |->
                      IF id = "gen"
                      THEN PeriodicInterruptGenerator_new(0, period_ms, count)
                      ELSE InitObjs[id]]
    /\ snapshot = NoSnapshot
    /\ last = Call("new", "", 0, "none", <<>>)
    /\ ran = 0

NextGen ==
    \/ ic_initialize
    \/ ic_register_interrupt(0, MaxPrio)
    \/ \E delta_time \in 0..MaxDelta : ic_update(delta_time)
    \/ \E delta_time \in 0..MaxGenDelta : gen_update(delta_time)
    \/ gen_reset
    \/ gen_enable
    \/ gen_disable

SpecGen == InitGen /\ [][NextGen]_vars

\* A host that registers a bus and an interrupt controller, drives them,
\* ticks the runtime at simulation_speed 1 and resets the runtime and the
\* models.
ResetPool == {"bus", "ic"}

NextReset ==
    \/ \E oc \in OutcomeChoices : initialize(oc)
    \/ \E name \in NameChoices(models), obj \in ResetPool :
           add_model(name, obj)
    \/ start
    \/ \E delta_time \in 0..MaxDelta, draws \in DrawChoices :
           update(delta_time, draws)
    \/ reset
    \/ \E id \in ResetPool : model_reset(id)
    \/ "ic" \in Registered(models) /\ ic_register_interrupt(0, MaxPrio)
    \/ "ic" \in Registered(models) /\ ic_raise_interrupt(0)
    \/ "bus" \in Registered(models) /\
           \E device_id \in {"A", "B"} : bus_attach_device(device_id)
    \/ "bus" \in Registered(models) /\
           \E message \in MessagesFrom("A") : bus_send("A", message)

SpecReset == InitTick /\ [][NextReset]_vars

\* the names, types, language codes and text keys the simulator host uses
ComponentNames == <<"c1", "c2", "c3", "c4">>
ComponentTypes == {"custom_type"}
Languages == {"zh_CN", "en_US", "fr_FR", "invalid_lang"}
TextKeys == {"success", "nonexistent_key"}

\* a call on one of the objects of the simulator host: the object after
\* the call, the operation, its argument, what it returned or raised and
\* the results it returned
OnSim(id, after, op, name, ret, calls) ==
    /\ objs' = [objs EXCEPT ![id] = after]
    /\ last' = Call(op, name, 0, ret, calls)
    /\ UNCHANGED <<state, start_time, models, elapsed_time, simulation_time,
                   update_count, simulation_speed, snapshot, ran>>

loc_set_language(language) ==
    LET r == Localization_set_language(objs["loc"], language)
    IN  OnSim("loc", r.l, "loc.set_language", language, r.ret, <<>>)

loc_get_text(key, default) ==
    OnSim("loc", objs["loc"], "loc.get_text", key,
          Localization_get_text(objs["loc"], key, default), <<default>>)

loc_add_translation(language, key, value) ==
    /\ language \notin DOMAIN objs["loc"].translations
    /\ OnSim("loc",
             Localization_add_translation(objs["loc"], language, key, value),
             "loc.add_translation", language, "none", <<>>)

proto_add_component(component_type) ==
    /\ Len(objs["proto"].components) < MaxComponents
    /\ OnSim("proto",
             VirtualPrototype_add_component(
                 objs["proto"],
                 Component_new(ComponentNames[Len(objs["proto"].components) + 1],
                               component_type)),
             "proto.add_component", component_type, "none", <<>>)

sim_register_test(name, test_func) ==
    /\ name \notin DOMAIN objs["sim"].test_functions
    /\ OnSim("sim", Simulator_register_test(objs["sim"], name, test_func),
             "sim.register_test", name, "none", <<>>)

\* the prototype the host passes: its prototype object or None
Prototypes == {objs["proto"], NoPrototype}

sim_run(r, op) ==
    /\ Len(objs["sim"].results) < MaxResults
    /\ OnSim("sim", r.s, op, "", "result", <<r.result>>)

sim_run_simulation(prototype) ==
    sim_run(Simulator_run_simulation(objs["sim"], objs["loc"], prototype,
                                     "basic"),
            "sim.run_simulation")

sim_run_stress_test(prototype) ==
    sim_run(Simulator_run_stress_test(objs["sim"], objs["loc"], prototype),
            "sim.run_stress_test")

sim_run_performance_test(prototype) ==
    sim_run(Simulator_run_performance_test(objs["sim"], objs["loc"],
                                           prototype),
            "sim.run_performance_test")

sim_clear_results ==
    OnSim("sim", Simulator_clear_results(objs["sim"]), "sim.clear_results",
          "", "none", <<>>)

\* A host with one simulator, one prototype and the localization module:
\* it adds components, registers a test function for one component type,
\* switches the language, adds a translation table, and runs and clears
\* simulations.

InitSim ==
    /\ state = "created"
    /\ start_time = 0
    /\ models = <<>>
    /\ elapsed_time = 0
    /\ simulation_time = 0
    /\ update_count = 0
    /\ simulation_speed = 1
    /\ objs = [id \in {"sim", "proto", "loc"} |->
                  CASE id = "sim" -> Simulator_new
                    [] id = "proto" -> VirtualPrototype_new
                    [] OTHER -> Localization_new]
    /\ snapshot = NoSnapshot
    /\ last = Call("new", "", 0, "none", <<>>)
    /\ ran = 0

NextSim ==
    \/ \E language \in Languages : loc_set_language(language)
    \/ \E key \in TextKeys : loc_get_text(key, "")
    \/ loc_get_text("nonexistent_key", "default_value")
    \/ loc_add_translation("fr_FR", "error", "Erreur")
    \/ \E component_type \in ComponentTypes :
           proto_add_component(component_type)
    \/ \E test_func \in {"passes", "raises"} :
           sim_register_test("custom_type", test_func)
    \/ \E prototype \in Prototypes : sim_run_simulation(prototype)
    \/ sim_run_stress_test(objs["proto"])
    \/ sim_run_performance_test(objs["proto"])
    \/ sim_clear_results

SpecSim == InitSim /\ [][NextSim]_vars

\* register_interrupt called with a handler that does what kind says
host_register_handler(vector, priority, kind) ==
    /\ objs' = [objs EXCEPT
                   !["ic"] = InterruptController_register_interrupt(
                                 @, vector, "timer", priority, TRUE),
                   !["host"].does[vector] = kind]
    /\ last' = Call("ic.register_interrupt", "ic", vector,
                    InterruptController_vector_result(objs["ic"], vector),
                    <<>>)
    /\ UNCHANGED <<state, start_time, models, elapsed_time, simulation_time,
                   update_count, simulation_speed, snapshot, ran>>

\* update() of a controller whose handlers act; the call record keeps the
\* vectors dispatched and how the call ended
ic_run(delta_time) ==
    LET r == InterruptController_run(objs["ic"], objs["host"].does,
                                     delta_time)
    IN  /\ objs["ic"].total_interrupts < MaxCount
        /\ objs' = [objs EXCEPT !["ic"] = r.c]
        /\ last' = Call("ic.update", "ic", delta_time, r.ret, r.dispatched)
        /\ UNCHANGED <<state, start_time, models, elapsed_time,
                       simulation_time, update_count, simulation_speed,
                       snapshot, ran>>

ic_reset ==
    OnObject("ic", InterruptController_reset(objs["ic"]), "ic.reset", "none")

\* A host whose interrupt handlers return, raise or call update(): it
\* initializes the controller, registers vectors with and without a
\* handler, raises them, updates and resets the controller.
InitNest ==
    /\ state = "created"
    /\ start_time = 0
    /\ models = <<>>
    /\ elapsed_time = 0
    /\ simulation_time = 0
    /\ update_count = 0
    /\ simulation_speed = 1
    /\ objs = [id \in ObjIds \cup {"host"} |->
                  IF id = "host"
                  THEN [kind |-> "host", does |-> [v \in Vectors |-> "returns"]]
                  ELSE InitObjs[id]]
    /\ snapshot = NoSnapshot
    /\ last = Call("new", "", 0, "none", <<>>)
    /\ ran = 0

NestVectors == {0, 1}

NextNest ==
    \/ ic_initialize
    \/ \E vector \in NestVectors, priority \in 0..MaxPrio :
           ic_register_interrupt(vector, priority)
    \/ \E vector \in NestVectors, priority \in 0..MaxPrio,
          kind \in HandlerKinds :
           /\ objs["ic"].initialized
           /\ host_register_handler(vector, priority, kind)
    \/ \E vector \in NestVectors : ic_raise_interrupt(vector)
    \/ \E delta_time \in 0..MaxDelta : ic_run(delta_time)
    \/ ic_reset

SpecNest == InitNest /\ [][NextNest]_vars

\* set_message_handler() with a handler that calls raise_interrupt on the
\* controller, which the host has initialized
device_set_raising_handler(device_id) ==
    /\ objs["ic"].initialized
    /\ device_set_message_handler(device_id)

\* A host that wires a bus device to an interrupt controller: the message
\* handler of device B raises RaisedVector.  It registers the bus and the
\* controller in either order, sends messages from A and ticks the runtime.
WirePool == {"bus", "ic"}

NextWire ==
    \/ \E oc \in OutcomeChoices : initialize(oc)
    \/ \E name \in NameChoices(models), obj \in WirePool :
           add_model(name, obj)
    \/ start
    \/ \E delta_time \in 0..MaxDelta, draws \in DrawChoices :
           update_wired(delta_time, draws)
    \/ \E priority \in 0..MaxPrio :
           ic_register_interrupt(RaisedVector, priority)
    \/ ic_disable_interrupt(RaisedVector)
    \/ \E device_id \in {"A", "B"} : bus_attach_device(device_id)
    \/ device_set_raising_handler("B")
    \/ \E message \in MessagesFrom("A") : bus_send("A", message)

SpecWire == InitTick /\ [][NextWire]_vars

\* A host that keeps a log of its raises: order holds the pending vectors in
\* the order in which raise_interrupt accepted them, moved the pending
\* vectors whose priority register_interrupt has changed since.
Log_new == [kind |-> "log", order |-> <<>>, moved |-> {}]

tie_register_interrupt(vector, priority) ==
    LET c == objs["ic"]
        changed == /\ vector \in Range(c.pending_interrupts)
                   /\ c.interrupts[vector].priority # priority
    IN  /\ vector \in DOMAIN c.interrupts
        /\ objs' = [objs EXCEPT
                       !["ic"] = InterruptController_register_interrupt(
                                     @, vector, "timer", priority, FALSE),
                       !["log"].moved = IF changed THEN @ \cup {vector}
                                        ELSE @]
        /\ last' = Call("ic.register_interrupt", "ic", vector, "ok", <<>>)
        /\ UNCHANGED <<state, start_time, models, elapsed_time,
                       simulation_time, update_count, simulation_speed,
                       snapshot, ran>>

tie_raise_interrupt(vector) ==
    LET after == InterruptController_raise_interrupt(objs["ic"], vector)
        accepted == after.pending_interrupts # objs["ic"].pending_interrupts
    IN  /\ objs' = [objs EXCEPT
                       !["ic"] = after,
                       !["log"].order = IF accepted THEN Append(@, vector)
                                        ELSE @]
        /\ last' = Call("ic.raise_interrupt", "ic", vector,
                        InterruptController_vector_result(objs["ic"], vector),
                        <<>>)
        /\ UNCHANGED <<state, start_time, models, elapsed_time,
                       simulation_time, update_count, simulation_speed,
                       snapshot, ran>>

\* the call record keeps the vector the update dispatched
tie_update(delta_time) ==
    LET after == InterruptController_update(objs["ic"], delta_time)
        gone == {v \in Range(objs["ic"].pending_interrupts) :
                    v \notin Range(after.pending_interrupts)}
    IN  /\ objs["ic"].total_interrupts < MaxCount
        /\ objs' = [objs EXCEPT
                       !["ic"] = after,
                       !["log"].order = SelectSeq(@, LAMBDA v : v \notin gone),
                       !["log"].moved = @ \ gone]
        /\ last' = Call("ic.update", "ic", delta_time, "none",
                        SelectSeq(objs["log"].order, LAMBDA v : v \in gone))
        /\ UNCHANGED <<state, start_time, models, elapsed_time,
                       simulation_time, update_count, simulation_speed,
                       snapshot, ran>>

InitTie ==
    /\ state = "created"
    /\ start_time = 0
    /\ models = <<>>
    /\ elapsed_time = 0
    /\ simulation_time = 0
    /\ update_count = 0
    /\ simulation_speed = 1
    /\ objs = [id \in ObjIds \cup {"log"} |->
                  IF id = "log" THEN Log_new ELSE InitObjs[id]]
    /\ snapshot = NoSnapshot
    /\ last = Call("new", "", 0, "none", <<>>)
    /\ ran = 0

TieVectors == {0, 1, 2}

NextTie ==
    \/ ~objs["ic"].initialized /\ ic_initialize
    \/ \E vector \in TieVectors, priority \in 0..MaxPrio :
           tie_register_interrupt(vector, priority)
    \/ \E vector \in TieVectors : tie_raise_interrupt(vector)
    \/ \E delta_time \in 0..MaxDelta : tie_update(delta_time)

SpecTie == InitTie /\ [][NextTie]_vars

\* A host that notes whether initialize() of its runtime has returned True
\* and calls every public operation of the runtime.
LifePool == {"custom"}

InitLife ==
    /\ state = "created"
    /\ start_time = 0
    /\ models = <<>>
    /\ elapsed_time = 0
    /\ simulation_time = 0
    /\ update_count = 0
    /\ simulation_speed = 1
    /\ objs = [id \in ObjIds \cup {"history"} |->
                  IF id = "history"
                  THEN [kind |-> "history", initialize_succeeded |-> FALSE]
                  ELSE InitObjs[id]]
    /\ snapshot = NoSnapshot
    /\ last = Call("new", "", 0, "none", <<>>)
    /\ ran = 0

NextLife ==
    \/ \E oc \in OutcomeChoices : initialize(oc)
    \/ \E name \in NameChoices(models), obj \in LifePool :
           add_model(name, obj)
    \/ start
    \/ pause
    \/ resume
    \/ stop
    \/ \E delta_time \in 0..MaxDelta, draws \in DrawChoices :
           update(delta_time, draws)
    \/ reset
    \/ save_snapshot
    \/ load_snapshot

SpecLife == InitLife /\ [][NextLife]_vars

\* the vectors the host of SpecIC names: two vectors of the table and the
\* first vector past it
HostVectors == {0, 1, NumVectors}

\* A host that drives one interrupt controller directly: it initializes
\* it, registers (with and without handler) and raises vectors (one past
\* the table included), switches vectors and the controller off and on and
\* calls update.
NextIC ==
    \/ ic_initialize
    \/ \E vector \in HostVectors, priority \in 0..MaxPrio :
           ic_register_interrupt(vector, priority)
    \/ \E vector \in HostVectors, priority \in 0..MaxPrio :
           ic_register_handler(vector, priority)
    \/ \E vector \in HostVectors : ic_raise_interrupt(vector)
    \/ \E delta_time \in 0..MaxDelta : ic_update(delta_time)
    \/ \E vector \in HostVectors : ic_enable_interrupt(vector)
    \/ \E vector \in HostVectors : ic_disable_interrupt(vector)
    \/ ic_disable_all
    \/ ic_enable_all

SpecIC == InitTick /\ [][NextIC]_vars

\* A host that registers and unregisters a CPU and an interrupt controller,
\* changes their state and saves and loads snapshots, without ticking.
NextLoad ==
    \/ \E oc \in OutcomeChoices : initialize(oc)
    \/ \E name \in NameChoices(models), obj \in SnapPool :
           add_model(name, obj)
    \/ \E name \in NameChoices(models) : remove_model(name)
    \/ "cpu" \in Registered(models) /\ cpu_execute_instruction
    \/ "ic" \in Registered(models) /\ ic_disable_all
    \/ "ic" \in Registered(models) /\ ic_enable_all
    \/ save_snapshot
    \/ load_snapshot

SpecLoad == InitTick /\ [][NextLoad]_vars

(***************************************************************************)
(* Properties                                                              *)
(***************************************************************************)
RuntimeUpdateRan == last.op = "update" /\ last.ret = "ran"

\* C1: within one Runtime.update made while Running, update is invoked
\* exactly once on every registered model whose initialized flag is true,
\* in the order of registration, and on no uninitialized model.
C1_UpdateInRegistrationOrder ==
    RuntimeUpdateRan =>
        /\ \A i \in 1..Len(models) :
               objs[models[i].obj].initialized <=>
                   \E j \in 1..Len(last.calls) :
                       last.calls[j] = models[i].name
        /\ \A j \in 1..Len(last.calls) : HasName(models, last.calls[j])
        /\ \A j1, j2 \in 1..Len(last.calls) :
               j1 < j2 => IndexOf(models, last.calls[j1])
                              < IndexOf(models, last.calls[j2])

C1_Witness ==
    /\ RuntimeUpdateRan
    /\ Len(models) = 2
    /\ Len(last.calls) = 1
    /\ \E i \in 1..Len(models) : ~objs[models[i].obj].initialized

TransitionOps == {"start", "pause", "resume", "stop"}

\* the edges of the state machine as the code has them
CodeEdges ==
    {<<"initialized", "start", "running">>, <<"paused", "start", "running">>,
     <<"running", "pause", "paused">>, <<"paused", "resume", "running">>,
     <<"running", "stop", "stopped">>, <<"paused", "stop", "stopped">>}

\* the edges of the state machine as the claim has them
ClaimedEdges == CodeEdges \ {<<"paused", "start", "running">>}

TransitionAlong(edges) ==
    last'.op \in TransitionOps =>
        /\ UNCHANGED <<models, elapsed_time, simulation_time, update_count,
                       objs>>
        /\ IF \E e \in edges : e[1] = state /\ e[2] = last'.op
           THEN <<state, last'.op, state'>> \in edges /\ last'.ret = "true"
           ELSE state' = state /\ last'.ret = "false"

\* C3 (as amended): start, pause, resume and stop change the state only
\* along Initialized|Paused --start--> Running, Running --pause--> Paused,
\* Paused --resume--> Running, Running|Paused --stop--> Stopped; in any
\* other state the call returns false and leaves the state unchanged.
C3_TransitionsOfTheCode == [][TransitionAlong(CodeEdges)]_vars

\* C3 (as claimed): the same with start() accepted in Initialized only.
C3_TransitionsAsClaimed == [][TransitionAlong(ClaimedEdges)]_vars

C3_Witness == last.op = "start" /\ last.ret = "false" /\ state = "stopped"

\* C4 (as claimed): when a model's initialize() fails during
\* Runtime.initialize(), the call returns failure, the state becomes Error,
\* the models before the failing one are initialized and those after it
\* are not.
C4_InitializeFailureGivesError ==
    [][(last'.op = "initialize" /\ last'.ret = "false") =>
          LET k == IndexOf(models, last'.name)
          IN  /\ state' = "error"
              /\ \A i \in 1..Len(models) :
                     /\ i < k => objs'[models[i].obj].initialized
                     /\ i > k => ~objs'[models[i].obj].initialized]_vars

\* C5 (as claimed): once the runtime is in Error no operation moves it to
\* another state.
C5_ErrorIsTerminal == [][state = "error" => state' = "error"]_vars

AddOfRegisteredName == last'.op = "add_model" /\ HasName(models, last'.name)

\* C6 (as amended): add_model with a registered name fails, with
\* DuplicateName below capacity and with CapacityExceeded at capacity, and
\* leaves the registered models, their order and their objects unchanged.
C6_DuplicateNameRejected ==
    [][AddOfRegisteredName =>
          /\ last'.ret = IF Len(models) >= MaxModels THEN "CapacityExceeded"
                         ELSE "DuplicateName"
          /\ UNCHANGED <<models, objs>>]_vars

\* C6 (as claimed): add_model with a registered name fails with
\* DuplicateName, also at capacity, and leaves the models unchanged.
C6_AlwaysDuplicateName ==
    [][AddOfRegisteredName =>
          /\ last'.ret = "DuplicateName"
          /\ UNCHANGED <<models, objs>>]_vars

C6_Witness ==
    /\ last.op = "add_model"
    /\ last.ret = "CapacityExceeded"
    /\ HasName(models, last.name)

\* C7: the number of registered models never exceeds max_models: add_model
\* at capacity fails with CapacityExceeded and adds nothing, and no other
\* operation increases the model count.
C7_ModelCountBounded ==
    /\ [](Len(models) <= MaxModels)
    /\ [][/\ (last'.op = "add_model" /\ Len(models) >= MaxModels) =>
                 (last'.ret = "CapacityExceeded" /\ models' = models)
          /\ Len(models') > Len(models) => last'.op = "add_model"]_vars

C7_Witness ==
    /\ last.op = "add_model"
    /\ last.ret = "CapacityExceeded"
    /\ ~HasName(models, last.name)
    /\ Len(models) = MaxModels

\* C9: with a fixed simulation_speed k, simulation_time equals
\* k * elapsed_time after any number of update calls, and elapsed_time is
\* the sum of the delta_time of the calls made while Running.
C9_SpeedScaling ==
    /\ simulation_time = simulation_speed * elapsed_time
    /\ ran >= 0 => elapsed_time = ran

C9_Witness ==
    /\ last.op = "update"
    /\ last.ret = "skipped"
    /\ last.arg > 0
    /\ state = "paused"
    /\ elapsed_time = MaxTime
    /\ simulation_speed = MaxSpeed

\* C2: in every runtime state other than Running, Runtime.update changes
\* nothing: elapsed_time, simulation_time, update_count and the state of
\* every model are unchanged.
C2_UpdateNoOpUnlessRunning ==
    [][(last'.op = "update" /\ state # "running") =>
          UNCHANGED <<state, models, elapsed_time, simulation_time,
                      update_count, objs>>]_vars

C2_Witness ==
    /\ last.op = "update"
    /\ last.ret = "skipped"
    /\ last.arg > 0
    /\ state = "error"
    /\ \E i \in 1..Len(models) : objs[models[i].obj].initialized

TickOfZero == last'.op = "update" /\ last'.ret = "ran" /\ last'.arg = 0

\* update of the object id may act although delta_time is 0
ActsAtZero(id) ==
    /\ id \in Registered(models)
    /\ objs[id].initialized
    /\ \/ id = "bus" /\ QueuedTx(objs[id]) > 0
       \/ /\ id = "ic"
          /\ objs[id].interrupt_enabled
          /\ objs[id].pending_interrupts # <<>>
          /\ objs[id].active_interrupt = NoVector

\* C8 (as amended): advancing a Running runtime by delta_time = 0 leaves
\* elapsed_time and simulation_time unchanged and adds one to update_count;
\* every model's state is unchanged, except that a registered, initialized
\* Bus with queued tx messages routes them all and a registered,
\* initialized, enabled InterruptController with pending vectors
\* dispatches one of them.
C8_ZeroTickFrame ==
    [][TickOfZero =>
          /\ elapsed_time' = elapsed_time
          /\ simulation_time' = simulation_time
          /\ update_count' = update_count + 1
          /\ \A id \in ObjIds : ~ActsAtZero(id) => objs'[id] = objs[id]
          /\ ActsAtZero("bus") =>
                 /\ QueuedTx(objs'["bus"]) = 0
                 /\ objs'["bus"].message_count =
                        objs["bus"].message_count + QueuedTx(objs["bus"])
          /\ ActsAtZero("ic") =>
                 /\ Len(objs'["ic"].pending_interrupts) =
                        Len(objs["ic"].pending_interrupts) - 1
                 /\ objs'["ic"].total_interrupts =
                        objs["ic"].total_interrupts + 1]_vars

\* C8 (as claimed): advancing a Running runtime by delta_time = 0 leaves
\* every model's state and counters and elapsed_time and simulation_time
\* unchanged; update_count increases by one.
C8_ZeroTickChangesNothing ==
    [][TickOfZero =>
          /\ elapsed_time' = elapsed_time
          /\ simulation_time' = simulation_time
          /\ update_count' = update_count + 1
          /\ objs' = objs]_vars

C8_Witness ==
    /\ last.op = "update"
    /\ last.ret = "ran"
    /\ last.arg = 0
    /\ "cpu" \in Registered(models)
    /\ objs["cpu"].initialized
    /\ objs["cpu"].running
    /\ objs["cpu"].cycle_count > 0

\* C10 (as claimed, for a snapshot S taken when every registered model was
\* initialized): after load_snapshot(S) the get_state() of every model
\* equals its get_state() at the time S was taken.
C10_SnapshotRoundTrip ==
    (last.op = "load_snapshot" /\ snapshot.ready) =>
        \A i \in 1..Len(models) : \A j \in 1..Len(snapshot.models) :
            (/\ snapshot.models[j].name = models[i].name
             /\ snapshot.models[j].type = objs[models[i].obj].kind) =>
                Model_get_state(objs[models[i].obj]) = snapshot.models[j].state

\* the names of the entries of the saved snapshot
SnapshotNames == {snapshot.models[i].name : i \in 1..Len(snapshot.models)}

\* the state the saved snapshot holds under name
SnapshotStateOf(name) ==
    LET i == CHOOSE j \in 1..Len(snapshot.models) :
                 snapshot.models[j].name = name
    IN  snapshot.models[i].state

\* C11: load_snapshot reports success and calls set_state, with the state
\* saved under its name, on exactly the registered models whose name
\* appears in the snapshot; a registered model absent from the snapshot and
\* every unregistered object (snapshot entry or not) keep their state.
C11_LoadTouchesOnlyNamedModels ==
    [][last'.op = "load_snapshot" =>
         /\ last'.ret = "true"
         /\ models' = models
         /\ \A id \in ObjIds :
                IF \E i \in 1..Len(models) :
                       models[i].obj = id /\ models[i].name \in SnapshotNames
                THEN LET i == CHOOSE j \in 1..Len(models) :
                                  models[j].obj = id
                     IN  objs'[id] =
                             Model_set_state(objs[id],
                                             SnapshotStateOf(models[i].name))
                ELSE objs'[id] = objs[id]]_vars

\* a load that met a registered model absent from the snapshot, whose state
\* differs from every saved one, and a snapshot entry whose name is not
\* registered
C11_Witness ==
    /\ last.op = "load_snapshot"
    /\ \E i \in 1..Len(models) :
           /\ models[i].name \notin SnapshotNames
           /\ \A j \in 1..Len(snapshot.models) :
                  Model_get_state(objs[models[i].obj]) #
                      snapshot.models[j].state
    /\ \E n \in SnapshotNames : ~HasName(models, n)

(***************************************************************************)
(* Bus properties                                                          *)
(***************************************************************************)
\* the step is a call of Bus.update by the host
BusUpdated == last'.op = "bus.update"

\* the ids attached to the bus b
AttachedIds(b) == {b.devices[i].id : i \in 1..Len(b.devices)}

\* the device of b with the attached id device_id
DeviceOf(b, device_id) == b.devices[DeviceIndex(b, device_id)]

\* how often m occurs in the queue q
Count(q, m) == Cardinality({i \in 1..Len(q) : q[i] = m})

\* the tx queues of the devices from device i on, one after the other
RECURSIVE QueuedFrom(_, _)
QueuedFrom(b, i) ==
    IF i > Len(b.devices) THEN <<>>
    ELSE b.devices[i].tx_queue \o QueuedFrom(b, i + 1)

\* the messages among queued that reach device_id, in order: those whose
\* draw was no error and that are broadcast by another device or addressed
\* to device_id
RECURSIVE ReachingFrom(_, _, _, _)
ReachingFrom(device_id, queued, draws, k) ==
    IF k > Len(queued) THEN <<>>
    ELSE LET m == queued[k]
             reaches == /\ ~draws[k]
                        /\ \/ m.destination = "broadcast" /\
                                  m.source # device_id
                           \/ m.destination = device_id
         IN  (IF reaches THEN <<m>> ELSE <<>>) \o
                 ReachingFrom(device_id, queued, draws, k + 1)

\* every device of the bus keeps its rx queue and its handler calls in
\* this step
RxUnchanged ==
    /\ Len(objs'["bus"].devices) = Len(objs["bus"].devices)
    /\ \A i \in 1..Len(objs["bus"].devices) :
           /\ objs'["bus"].devices[i].id = objs["bus"].devices[i].id
           /\ objs'["bus"].devices[i].rx_queue =
                  objs["bus"].devices[i].rx_queue
           /\ objs'["bus"].devices[i].handled = objs["bus"].devices[i].handled

\* C12: on a bus with error_rate 0 and attached devices {A, B, C}, each
\* broadcast message A has sent is, after the next Bus.update, once more in
\* the rx queue of B and of C than before, and is not in A's rx queue.
C12_BroadcastReachesOthersOnly ==
    [][(/\ BusUpdated
        /\ objs["bus"].error_rate = 0
        /\ AttachedIds(objs["bus"]) = {"A", "B", "C"}) =>
           LET b == objs["bus"]
               sent == DeviceOf(b, "A").tx_queue
           IN  \A k \in 1..Len(sent) :
                   sent[k].destination = "broadcast" =>
                       /\ \A d \in {"B", "C"} :
                              Count(DeviceOf(objs'["bus"], d).rx_queue,
                                    sent[k]) =
                                  Count(DeviceOf(b, d).rx_queue, sent[k]) +
                                      Count(sent, sent[k])
                       /\ Count(DeviceOf(objs'["bus"], "A").rx_queue,
                                sent[k]) = 0]_vars

\* an update on {A, B, C} at error_rate 0 after which B and C hold a
\* broadcast of A
C12_Witness ==
    /\ last.op = "bus.update"
    /\ objs["bus"].error_rate = 0
    /\ AttachedIds(objs["bus"]) = {"A", "B", "C"}
    /\ LET m == [source |-> "A", destination |-> "broadcast", nbytes |-> 1]
       IN  /\ Count(DeviceOf(objs["bus"], "B").rx_queue, m) = 1
           /\ Count(DeviceOf(objs["bus"], "C").rx_queue, m) = 1
           /\ DeviceOf(objs["bus"], "A").rx_queue = <<>>

\* C13: whatever was sent, attached, detached and updated, the rx queue of
\* a device (and what its handler was called with) holds only broadcasts
\* and messages addressed to that device.
C13_UnicastOnlyToDestination ==
    \A i \in 1..Len(objs["bus"].devices) :
        LET d == objs["bus"].devices[i]
        IN  /\ \A k \in 1..Len(d.rx_queue) :
                   d.rx_queue[k].destination \in {"broadcast", d.id}
            /\ \A k \in 1..Len(d.handled) :
                   d.handled[k].destination \in {"broadcast", d.id}

\* B, attached after another device and next to a third, holds a message
\* addressed to it
C13_Witness ==
    /\ Len(objs["bus"].devices) = 3
    /\ objs["bus"].devices[1].id # "B"
    /\ Attached(objs["bus"], "B")
    /\ \E k \in 1..Len(DeviceOf(objs["bus"], "B").rx_queue) :
           DeviceOf(objs["bus"], "B").rx_queue[k].destination = "B"

\* C14: at error_rate 1.0 a Bus.update adds the number of routed messages
\* to message_count and to error_count, puts nothing in any rx queue and
\* calls no handler, and no rx queue ever holds a message; at error_rate 0
\* no step increases error_count.
C14_ErrorRateExtremes ==
    [][/\ objs["bus"].error_rate = 100 =>
              /\ BusUpdated =>
                     /\ objs'["bus"].message_count =
                            objs["bus"].message_count + QueuedTx(objs["bus"])
                     /\ objs'["bus"].error_count =
                            objs["bus"].error_count + QueuedTx(objs["bus"])
                     /\ RxUnchanged
              /\ \A i \in 1..Len(objs'["bus"].devices) :
                     /\ objs'["bus"].devices[i].rx_queue = <<>>
                     /\ objs'["bus"].devices[i].handled = <<>>
       /\ objs["bus"].error_rate = 0 =>
              objs'["bus"].error_count = objs["bus"].error_count]_vars

\* at error_rate 1.0 an update routed two messages while B, with a handler
\* set, was attached
C14_Witness ==
    /\ last.op = "bus.update"
    /\ objs["bus"].error_rate = 100
    /\ objs["bus"].message_count = 2
    /\ objs["bus"].error_count = 2
    /\ Len(objs["bus"].devices) >= 2
    /\ Attached(objs["bus"], "B")
    /\ DeviceOf(objs["bus"], "B").message_handler

\* m has no receiver on the bus b
Undeliverable(b, m) ==
    m.destination # "broadcast" /\ ~Attached(b, m.destination)

\* the step is a Bus.update that routes at least one message, all of them
\* without receiver
RoutesOnlyUndeliverable ==
    /\ BusUpdated
    /\ QueuedTx(objs["bus"]) > 0
    /\ \A k \in 1..Len(QueuedFrom(objs["bus"], 1)) :
           Undeliverable(objs["bus"], QueuedFrom(objs["bus"], 1)[k])

\* the number of draws that came out as an error
Errors(draws) == Cardinality({k \in 1..Len(draws) : draws[k]})

\* C15 (as amended): a routed message whose destination is neither
\* "broadcast" nor an attached id is never delivered: message_count and
\* total_bytes grow, every rx queue is unchanged, and error_count grows
\* only for the messages hit by the error_rate draw (never at error_rate 0).
C15_UndeliverableDiscarded ==
    [][RoutesOnlyUndeliverable =>
           /\ objs'["bus"].message_count =
                  objs["bus"].message_count + QueuedTx(objs["bus"])
           /\ objs'["bus"].total_bytes =
                  objs["bus"].total_bytes + QueuedTx(objs["bus"])
           /\ RxUnchanged
           /\ objs'["bus"].error_count =
                  objs["bus"].error_count + Errors(last'.calls)
           /\ objs["bus"].error_rate = 0 =>
                  objs'["bus"].error_count = objs["bus"].error_count]_vars

\* C15 as claimed: error_count does not grow for such a message, whatever
\* the error_rate.
C15_UndeliverableNeverAnError ==
    [][RoutesOnlyUndeliverable =>
           /\ objs'["bus"].message_count =
                  objs["bus"].message_count + QueuedTx(objs["bus"])
           /\ objs'["bus"].total_bytes =
                  objs["bus"].total_bytes + QueuedTx(objs["bus"])
           /\ RxUnchanged
           /\ objs'["bus"].error_count = objs["bus"].error_count]_vars

\* an update without error routed messages addressed to B while B was not
\* attached and another device, next to the sender, was
C15_Witness ==
    /\ last.op = "bus.update"
    /\ Len(last.calls) = 2
    /\ objs["bus"].message_count = 2
    /\ objs["bus"].error_count = 0
    /\ ~Attached(objs["bus"], "B")
    /\ Len(objs["bus"].devices) >= 2
    /\ \A i \in 1..Len(objs["bus"].devices) :
           objs["bus"].devices[i].rx_queue = <<>>

\* the step is a call of attach_device
AttachCalled == last'.op = "bus.attach_device"

\* the ids of the devices of b are pairwise different and within capacity
DevicesWellFormed(b) ==
    /\ Len(b.devices) <= MaxDevices
    /\ \A i, j \in 1..Len(b.devices) :
           b.devices[i].id = b.devices[j].id => i = j

\* C16 (as amended): attach_device fails with BusFull when device_count =
\* max_devices, and with DuplicateDevice when the id is attached and the
\* bus is below capacity; a failed call leaves the bus unchanged, device
\* ids are unique and device_count <= max_devices in every state.
C16_AttachRejections ==
    [][/\ AttachCalled =>
              /\ Len(objs["bus"].devices) = MaxDevices =>
                     last'.ret = "BusFull"
              /\ (/\ Len(objs["bus"].devices) < MaxDevices
                  /\ Attached(objs["bus"], last'.name)) =>
                     last'.ret = "DuplicateDevice"
              /\ last'.ret # "ok" => objs' = objs
       /\ DevicesWellFormed(objs'["bus"])]_vars

\* C16 as claimed: an attached id is always refused with DuplicateDevice.
C16_AlwaysDuplicateDevice ==
    [][AttachCalled =>
           /\ Len(objs["bus"].devices) = MaxDevices =>
                  last'.ret = "BusFull"
           /\ Attached(objs["bus"], last'.name) =>
                  last'.ret = "DuplicateDevice"]_vars

\* a full bus refused an id that is attached, with BusFull, while its
\* devices held messages
C16_Witness ==
    /\ last.op = "bus.attach_device"
    /\ last.ret = "BusFull"
    /\ Attached(objs["bus"], last.name)
    /\ Len(objs["bus"].devices) = MaxDevices
    /\ \E i \in 1..Len(objs["bus"].devices) :
           objs["bus"].devices[i].rx_queue # <<>>

\* C17: detach_device(id) removes the device id and nothing else: the
\* other devices keep their order, rx and tx queues and handlers, and the
\* counters of the bus are unchanged.
C17_DetachFrame ==
    [][last'.op = "bus.detach_device" =>
           /\ objs'["bus"].devices =
                  SelectSeq(objs["bus"].devices,
                            LAMBDA d : d.id # last'.name)
           /\ objs'["bus"].message_count = objs["bus"].message_count
           /\ objs'["bus"].error_count = objs["bus"].error_count
           /\ objs'["bus"].total_bytes = objs["bus"].total_bytes]_vars

\* a device was detached while another one held a message it had sent and
\* a third had a message queued
C17_Witness ==
    /\ last.op = "bus.detach_device"
    /\ ~Attached(objs["bus"], last.name)
    /\ \E i, j \in 1..Len(objs["bus"].devices) :
           /\ \E k \in 1..Len(objs["bus"].devices[i].rx_queue) :
                  objs["bus"].devices[i].rx_queue[k].source = last.name
           /\ objs["bus"].devices[j].tx_queue # <<>>

C19_RoutingOrder ==
    [][BusUpdated =>
           LET b == objs["bus"]
           IN  /\ Len(objs'["bus"].devices) = Len(b.devices)
               /\ \A i \in 1..Len(b.devices) :
                      LET reaching ==
                              ReachingFrom(b.devices[i].id, QueuedFrom(b, 1),
                                           last'.calls, 1)
                      IN  /\ objs'["bus"].devices[i].rx_queue =
                                 b.devices[i].rx_queue \o reaching
                          /\ objs'["bus"].devices[i].handled =
                                 b.devices[i].handled \o
                                     (IF b.devices[i].message_handler
                                      THEN reaching ELSE <<>>)]_vars

\* one update handed a device two different messages
C19_Witness ==
    /\ last.op = "bus.update"
    /\ Len(last.calls) = 2
    /\ \E i \in 1..Len(objs["bus"].devices) :
           /\ Len(objs["bus"].devices[i].rx_queue) = 2
           /\ objs["bus"].devices[i].rx_queue[1] #
                  objs["bus"].devices[i].rx_queue[2]

(***************************************************************************)
(* InterruptController properties                                          *)
(***************************************************************************)
\* C20: the pending list of the controller never holds a vector twice, and
\* raise_interrupt of a vector that is pending leaves the controller (its
\* pending list and pending_count included) unchanged.
C20_PendingHasNoDuplicates ==
    [][/\ \A i, j \in 1..Len(objs'["ic"].pending_interrupts) :
              objs'["ic"].pending_interrupts[i] =
                  objs'["ic"].pending_interrupts[j] => i = j
       /\ (/\ last'.op = "ic.raise_interrupt"
           /\ last'.arg \in Range(objs["ic"].pending_interrupts)) =>
              /\ objs'["ic"] = objs["ic"]
              /\ InterruptController_get_state(objs'["ic"]).pending_count =
                     InterruptController_get_state(objs["ic"]).pending_count
      ]_vars

\* the last call raised a vector that is pending ahead of a vector raised
\* after it: the call met it pending and did not append it again
C20_Witness ==
    /\ last.op = "ic.raise_interrupt"
    /\ last.ret = "ok"
    /\ Len(objs["ic"].pending_interrupts) = 2
    /\ objs["ic"].pending_interrupts[1] = last.arg
    /\ objs["ic"].interrupt_enabled

\* the step is a call of InterruptController.update by the host
IcUpdated == last'.op = "ic.update"

\* the trigger counts of the controller c, by vector
CountsOf(c) == [v \in DOMAIN c.interrupts |-> c.interrupts[v].count]

\* the step changes nothing of the controller but its enabled flags
OnlyFlagsChange ==
    /\ objs'["ic"].pending_interrupts = objs["ic"].pending_interrupts
    /\ objs'["ic"].active_interrupt = objs["ic"].active_interrupt
    /\ objs'["ic"].total_interrupts = objs["ic"].total_interrupts
    /\ objs'["ic"].initialized = objs["ic"].initialized
    /\ DOMAIN objs'["ic"].interrupts = DOMAIN objs["ic"].interrupts
    /\ \A v \in DOMAIN objs["ic"].interrupts :
           objs'["ic"].interrupts[v] =
               [objs["ic"].interrupts[v] EXCEPT
                   !.enabled = objs'["ic"].interrupts[v].enabled]

\* C21: an update that dispatches takes a vector that was pending and whose
\* priority is at least the priority of every vector that was pending,
\* whatever the order of the pending list.
C21_DispatchesHighestPriority ==
    [][(/\ IcUpdated
        /\ objs'["ic"].total_interrupts # objs["ic"].total_interrupts) =>
           LET c == objs["ic"]
           IN  \E v \in Range(c.pending_interrupts) :
                   /\ objs'["ic"].interrupts[v].count =
                          c.interrupts[v].count + 1
                   /\ v \notin Range(objs'["ic"].pending_interrupts)
                   /\ \A w \in Range(c.pending_interrupts) :
                          /\ c.interrupts[v].priority >=
                                 c.interrupts[w].priority
                          /\ w # v =>
                                 /\ w \in Range(objs'["ic"].pending_interrupts)
                                 /\ objs'["ic"].interrupts[w].count =
                                        c.interrupts[w].count]_vars

\* the update just made dispatched the vector of higher priority and left
\* the other one, which holds vector 0 or 1 either way, pending
C21_Witness ==
    /\ last.op = "ic.update"
    /\ objs["ic"].interrupt_enabled
    /\ objs["ic"].total_interrupts = 1
    /\ Len(objs["ic"].pending_interrupts) = 1
    /\ \E v \in DOMAIN objs["ic"].interrupts :
           /\ objs["ic"].interrupts[v].count = 1
           /\ objs["ic"].interrupts[v].priority >
                  objs["ic"].interrupts[
                      objs["ic"].pending_interrupts[1]].priority

\* C22: one update dispatches at most one vector, whatever delta_time:
\* total_interrupts and the trigger counts grow by at most one in all, the
\* pending list loses at most one vector and at most one handler is called;
\* an enabled controller with n > 0 pending vectors has n - 1 left.
C22_AtMostOneDispatchPerUpdate ==
    [][IcUpdated =>
           LET c == objs["ic"]
               d == objs'["ic"]
               grown == {v \in DOMAIN c.interrupts :
                            d.interrupts[v].count # c.interrupts[v].count}
           IN  /\ d.total_interrupts \in
                      {c.total_interrupts, c.total_interrupts + 1}
               /\ Len(d.pending_interrupts) \in
                      {Len(c.pending_interrupts),
                       Len(c.pending_interrupts) - 1}
               /\ Cardinality(grown) <= 1
               /\ \A v \in grown :
                      d.interrupts[v].count = c.interrupts[v].count + 1
               /\ Len(last'.calls) <= 1
               /\ (c.interrupt_enabled /\ c.pending_interrupts # <<>>) =>
                      Len(d.pending_interrupts) =
                          Len(c.pending_interrupts) - 1]_vars

\* an update with delta_time > 0 called one handler and left a vector of
\* the backlog pending
C22_Witness ==
    /\ last.op = "ic.update"
    /\ last.arg = MaxDelta
    /\ Len(last.calls) = 1
    /\ objs["ic"].interrupt_enabled
    /\ objs["ic"].total_interrupts = 1
    /\ objs["ic"].pending_interrupts # <<>>

\* C23: raise_interrupt of a vector outside the table fails with
\* InvalidVector and changes nothing; of a vector whose enabled flag is
\* false, or on a globally disabled controller, it changes nothing; it
\* never changes anything but the pending list, and what it appends is the
\* raised vector, enabled, on a globally enabled controller.
C23_RaiseGuards ==
    [][last'.op = "ic.raise_interrupt" =>
           LET c == objs["ic"]
               v == last'.arg
           IN  /\ v \notin DOMAIN c.interrupts =>
                      last'.ret = "InvalidVector" /\ objs'["ic"] = c
               /\ v \in DOMAIN c.interrupts =>
                      /\ last'.ret = "ok"
                      /\ (~c.interrupt_enabled \/ ~c.interrupts[v].enabled)
                             => objs'["ic"] = c
                      /\ objs'["ic"] =
                             [c EXCEPT !.pending_interrupts =
                                 objs'["ic"].pending_interrupts]
                      /\ objs'["ic"].pending_interrupts # c.pending_interrupts
                             => /\ c.interrupt_enabled
                                /\ c.interrupts[v].enabled
                                /\ objs'["ic"].pending_interrupts =
                                       Append(c.pending_interrupts, v)]_vars

\* a vector whose enabled flag is false was raised on a globally enabled
\* controller that holds another vector pending
C23_Witness ==
    /\ last.op = "ic.raise_interrupt"
    /\ last.ret = "ok"
    /\ objs["ic"].interrupt_enabled
    /\ ~objs["ic"].interrupts[last.arg].enabled
    /\ objs["ic"].pending_interrupts # <<>>
    /\ last.arg \notin Range(objs["ic"].pending_interrupts)

\* C24: once the controller is initialized its vector table holds exactly
\* the vectors 0..num_vectors-1; register_interrupt of a vector outside
\* fails with InvalidVector and changes nothing, of a vector inside it sets
\* the slot's type, priority and handler and its enabled flag to true and
\* changes nothing else.
C24_VectorTableFixed ==
    [][/\ objs'["ic"].initialized =>
              DOMAIN objs'["ic"].interrupts = Vectors
       /\ (last'.op = "ic.register_interrupt" /\ objs["ic"].initialized) =>
              LET c == objs["ic"]
                  v == last'.arg
              IN  /\ v \notin Vectors =>
                         last'.ret = "InvalidVector" /\ objs'["ic"] = c
                  /\ v \in Vectors =>
                         /\ last'.ret = "ok"
                         /\ objs'["ic"].interrupts[v].enabled
                         /\ objs'["ic"] =
                                [c EXCEPT !.interrupts[v] =
                                    [@ EXCEPT
                                        !.interrupt_type =
                                            objs'["ic"].interrupts[v]
                                                .interrupt_type,
                                        !.priority =
                                            objs'["ic"].interrupts[v].priority,
                                        !.handler =
                                            objs'["ic"].interrupts[v].handler,
                                        !.enabled = TRUE]]]_vars

\* a vector that had been dispatched was registered again, with a handler,
\* and kept its trigger count
C24_Witness ==
    /\ last.op = "ic.register_interrupt"
    /\ last.ret = "ok"
    /\ objs["ic"].initialized
    /\ objs["ic"].interrupts[last.arg].count > 0
    /\ objs["ic"].interrupts[last.arg].handler
    /\ objs["ic"].interrupts[last.arg].priority = MaxPrio

\* C25: enable_interrupt and disable_interrupt change only the enabled
\* flag of the named vector (nothing when it is outside the table),
\* enable_all and disable_all only the global flag; pending, active, the
\* trigger counts and total_interrupts are unchanged.
C25_EnableDisableFrame ==
    [][/\ last'.op \in {"ic.enable_interrupt", "ic.disable_interrupt"} =>
              /\ OnlyFlagsChange
              /\ objs'["ic"].interrupt_enabled = objs["ic"].interrupt_enabled
              /\ \A v \in DOMAIN objs["ic"].interrupts :
                     objs'["ic"].interrupts[v].enabled =
                         IF v = last'.arg
                         THEN last'.op = "ic.enable_interrupt"
                         ELSE objs["ic"].interrupts[v].enabled
       /\ last'.op \in {"ic.enable_all", "ic.disable_all"} =>
              /\ OnlyFlagsChange
              /\ objs'["ic"].interrupts = objs["ic"].interrupts
              /\ objs'["ic"].interrupt_enabled = (last'.op = "ic.enable_all")
      ]_vars

\* disable_all was called on a controller that has dispatched a vector and
\* holds another one pending
C25_Witness ==
    /\ last.op = "ic.disable_all"
    /\ ~objs["ic"].interrupt_enabled
    /\ objs["ic"].pending_interrupts # <<>>
    /\ objs["ic"].total_interrupts > 0

\* C26: on a globally disabled controller update changes nothing and calls
\* no handler, and no call of the host but reset changes the pending list;
\* on an enabled one an update dispatches one of the pending vectors.
C26_DisabledUpdateIsNoOp ==
    [][/\ (IcUpdated /\ ~objs["ic"].interrupt_enabled) =>
              objs'["ic"] = objs["ic"] /\ last'.calls = <<>>
       /\ (~objs["ic"].interrupt_enabled /\ last'.op # "model.reset") =>
              objs'["ic"].pending_interrupts = objs["ic"].pending_interrupts
       /\ last'.op = "ic.disable_all" =>
              objs'["ic"].pending_interrupts = objs["ic"].pending_interrupts
       /\ (/\ IcUpdated
           /\ objs["ic"].interrupt_enabled
           /\ objs["ic"].pending_interrupts # <<>>) =>
              /\ Len(objs'["ic"].pending_interrupts) =
                     Len(objs["ic"].pending_interrupts) - 1
              /\ objs'["ic"].total_interrupts =
                     objs["ic"].total_interrupts + 1]_vars

\* update was called on a globally disabled controller that holds a
\* pending vector with a handler
C26_Witness ==
    /\ last.op = "ic.update"
    /\ ~objs["ic"].interrupt_enabled
    /\ objs["ic"].pending_interrupts # <<>>
    /\ objs["ic"].interrupts[objs["ic"].pending_interrupts[1]].handler
    /\ last.calls = <<>>

(***************************************************************************)
(* PeriodicInterruptGenerator properties                                   *)
(***************************************************************************)
\* the step is a call of update of the generator by the host
GenUpdated == last'.op = "gen.update"

\* C27: the fired-count of a generator with a fire limit never exceeds the
\* limit and only reset() lowers it; once it equals the limit an update
\* makes no raise_interrupt call and changes neither the generator nor the
\* controller.
C27_FireLimitRespected ==
    [][/\ objs'["gen"].max_count # NoLimit =>
              objs'["gen"].current_count <= objs'["gen"].max_count
       /\ objs'["gen"].current_count < objs["gen"].current_count =>
              last'.op = "gen.reset"
       /\ (/\ GenUpdated
           /\ objs["gen"].max_count # NoLimit
           /\ objs["gen"].current_count = objs["gen"].max_count) =>
              /\ last'.calls = <<>>
              /\ objs' = objs]_vars

\* a generator that has reached its limit of MaxFires firings, with whole
\* periods left over, was updated again and stayed inert
C27_Witness ==
    /\ last.op = "gen.update"
    /\ last.arg > 0
    /\ last.calls = <<>>
    /\ objs["gen"].enabled
    /\ objs["gen"].max_count = MaxFires
    /\ objs["gen"].current_count = MaxFires
    /\ objs["gen"].elapsed_time >= objs["gen"].period_ms

\* the whole periods covered by the time accumulated once delta_time is
\* added
PeriodsCovered(g, delta_time) ==
    (g.elapsed_time + delta_time * MsPerSecond) \div g.period_ms

\* the firings the limit still allows, at most n
Budget(g, n) ==
    IF g.max_count = NoLimit THEN n
    ELSE IF g.max_count - g.current_count < n
    THEN g.max_count - g.current_count ELSE n

\* what an update of the enabled generator g does when it fires k times
FiresTimes(k) ==
    LET g == objs["gen"]
    IN  /\ Len(last'.calls) = k
        /\ \A i \in 1..k : last'.calls[i] = g.vector
        /\ objs'["gen"].current_count = g.current_count + k
        /\ objs'["gen"].elapsed_time =
               IF PeriodicInterruptGenerator_exhausted(g)
               THEN g.elapsed_time
               ELSE g.elapsed_time + last'.arg * MsPerSecond -
                        k * g.period_ms

C29_UninitializedUpdateIsNoOp ==
    [][last'.op \in {"update", "bus.update", "ic.update"} =>
           \A id \in ObjIds :
               ~objs[id].initialized => objs'[id] = objs[id]]_vars

\* the counters of the model are at their initial zero or empty values
CountersCleared(o) ==
    CASE o.kind = "bus" -> /\ o.message_count = 0
                           /\ o.error_count = 0
                           /\ o.total_bytes = 0
      [] o.kind = "ic" -> /\ o.total_interrupts = 0
                          /\ o.pending_interrupts = <<>>
                          /\ o.active_interrupt = NoVector
                          /\ \A v \in DOMAIN o.interrupts :
                                 o.interrupts[v].count = 0
      [] o.kind = "cpu" -> o.instruction_count = 0 /\ o.cycle_count = 0
      [] o.kind = "mem" -> o.access_count = 0
      [] OTHER -> TRUE

\* the models a reset call acts on: the one named, or every registered one
ResetTargets(call, ms) ==
    IF call.op = "model.reset" THEN {call.name} ELSE Registered(ms)

\* C30: reset() on a model, and reset() of the runtime on every registered
\* model, keeps the initialized flag of the model and leaves its counters
\* (bus message, error and byte counts; interrupt counts, total, pending and
\* active) at zero or empty; models that are not reset are unchanged.
C30_ResetKeepsInitializedClearsCounters ==
    [][last'.op \in {"reset", "model.reset"} =>
           \A id \in ObjIds :
               IF id \in ResetTargets(last', models)
               THEN /\ objs'[id].initialized = objs[id].initialized
                    /\ CountersCleared(objs'[id])
               ELSE objs'[id] = objs[id]]_vars

\* the host reset an initialized controller that had dispatched an interrupt:
\* the flag is kept, the counters are cleared and the vector stays registered
C30_Witness ==
    /\ last.op = "model.reset"
    /\ last.name = "ic"
    /\ last.arg > 0
    /\ objs["ic"].initialized
    /\ 0 \in DOMAIN objs["ic"].interrupts
    /\ CountersCleared(objs["ic"])

(***************************************************************************)
(* Simulator and localization properties                                   *)
(***************************************************************************)
RunOps ==
    {"sim.run_simulation", "sim.run_stress_test", "sim.run_performance_test"}

\* C31: every run of a simulation, successful or failed, appends exactly
\* the result it returns to the results of the simulator.
C31_EveryRunIsRecorded ==
    [][last'.op \in RunOps =>
           objs'["sim"].results =
               Append(objs["sim"].results, last'.calls[1])]_vars

\* C32: set_language with a code that has no translation table raises
\* ValueError and keeps the current language; with a code that has one it
\* sets the current language; nothing else changes the current language,
\* and get_text returns the text of the key in the table of the current
\* language (the default, or the key, when the table has no such key).
C32_SetLanguage ==
    [][LET l == objs["loc"]
           after == objs'["loc"]
       IN  /\ last'.op = "loc.set_language" =>
                  IF last'.name \in DOMAIN l.translations
                  THEN /\ last'.ret = "none"
                       /\ after.current_language = last'.name
                       /\ after.translations = l.translations
                  ELSE last'.ret = "ValueError" /\ after = l
           /\ last'.op # "loc.set_language" =>
                  after.current_language = l.current_language
           /\ last'.op = "loc.get_text" =>
                  LET table == l.translations[l.current_language]
                  IN  /\ after = l
                      /\ last'.ret =
                             IF last'.name \in DOMAIN table
                             THEN table[last'.name]
                             ELSE IF last'.calls[1] # "" THEN last'.calls[1]
                             ELSE last'.name]_vars

\* a set_language with an unsupported code failed after en_US had been set:
\* the language is still en_US
C32_Witness ==
    /\ last.op = "loc.set_language"
    /\ last.name = "invalid_lang"
    /\ last.ret = "ValueError"
    /\ objs["loc"].current_language = "en_US"

\* C33: the active vector of a controller is None whenever no update call
\* is executing, and an update dispatches at most one vector, the update
\* calls made from inside its handler dispatching nothing.
C33_ActiveOnlyDuringUpdate ==
    [][/\ objs'["ic"].active_interrupt = NoVector
       /\ last'.op = "ic.update" => Len(last'.calls) <= 1]_vars

(***************************************************************************)
(* Properties of a tick over a wired bus and controller                    *)
(***************************************************************************)
\* the controller is registered after the bus: its update follows the update
\* of the bus in the tick
ControllerAfterBus(ms) ==
    \E i \in 1..Len(ms), j \in 1..Len(ms) :
        i < j /\ ms[i].obj = "bus" /\ ms[j].obj = "ic"

\* the tick called a message handler, whose raise_interrupt the controller
\* accepted
RaisedInTick ==
    /\ last'.op = "update"
    /\ last'.ret = "ran"
    /\ HandlerCalls(objs["bus"], objs'["bus"]) > 0
    /\ objs["ic"].interrupt_enabled
    /\ objs["ic"].interrupts[RaisedVector].enabled

\* C34: an interrupt raised by a bus message handler during a tick is
\* dispatched in that tick only if the controller is registered after the
\* bus; otherwise it is pending at the end of the tick, and the tick did not
\* dispatch it.
C34_DispatchInTickNeedsLaterController ==
    [][RaisedInTick =>
           LET pending == Range(objs["ic"].pending_interrupts)
               pendingAfter == Range(objs'["ic"].pending_interrupts)
               count == objs["ic"].interrupts[RaisedVector].count
               countAfter == objs'["ic"].interrupts[RaisedVector].count
           IN  /\ RaisedVector \notin pendingAfter =>
                      ControllerAfterBus(models)
               /\ ~ControllerAfterBus(models) =>
                      /\ RaisedVector \in pendingAfter
                      /\ RaisedVector \notin pending => countAfter = count]_vars

\* the first tick of a runtime with the controller registered before the
\* bus: the handler of B was called, the vector is pending and nothing has
\* been dispatched
C34_Witness ==
    /\ last.op = "update"
    /\ last.ret = "ran"
    /\ Len(models) = 2
    /\ models[1].obj = "ic"
    /\ models[2].obj = "bus"
    /\ last.calls = <<models[1].name, models[2].name>>
    /\ objs["bus"].message_count > 0
    /\ Attached(objs["bus"], "B")
    /\ DeviceOf(objs["bus"], "B").handled # <<>>
    /\ objs["ic"].pending_interrupts = <<RaisedVector>>
    /\ objs["ic"].total_interrupts = 0

(***************************************************************************)
(* Further interrupt controller properties                                 *)
(***************************************************************************)
\* the sum of the trigger counts of the vectors of the controller
RECURSIVE SumCounts(_, _)
SumCounts(c, vs) ==
    IF vs = {} THEN 0
    ELSE LET v == CHOOSE w \in vs : TRUE
         IN  c.interrupts[v].count + SumCounts(c, vs \ {v})

\* C35: in every reachable state of a controller total_interrupts is the
\* sum of the trigger counts of its vectors.
C35_TotalIsSumOfCounts ==
    objs["ic"].total_interrupts =
        SumCounts(objs["ic"], DOMAIN objs["ic"].interrupts)

(***************************************************************************)
(* Further runtime properties                                              *)
(***************************************************************************)
\* C36: a runtime is Running only if an earlier call of initialize()
\* returned True.
C36_RunningOnlyAfterInitialize ==
    state = "running" => objs["history"].initialize_succeeded

(***************************************************************************)
(* Order of dispatch among equal priorities                                *)
(***************************************************************************)
\* the pending vectors of the highest priority
Ties(c) ==
    {v \in Range(c.pending_interrupts) :
        \A w \in Range(c.pending_interrupts) :
            c.interrupts[w].priority <= c.interrupts[v].priority}

\* the vector of vs that was raised first
Earliest(order, vs) == Head(SelectSeq(order, LAMBDA v : v \in vs))

TieDispatched == last'.op = "ic.update" /\ last'.calls # <<>>

\* C37: an update dispatches a pending vector of the highest priority, and
\* among several of them the one raised earliest, provided register_interrupt
\* has not changed the priority of any of them while it was pending.
C37_EarliestOfUnmovedTies ==
    [][TieDispatched =>
           /\ last'.calls[1] \in Ties(objs["ic"])
           /\ Ties(objs["ic"]) \cap objs["log"].moved = {} =>
                  last'.calls[1] =
                      Earliest(objs["log"].order, Ties(objs["ic"]))]_vars

\* C37 as claimed: among the pending vectors of the highest priority an
\* update dispatches the one raised earliest, for every sequence of calls.
C37_EarliestOfTies ==
    [][TieDispatched =>
           last'.calls[1] =
               Earliest(objs["log"].order, Ties(objs["ic"]))]_vars

\* an update dispatched a vector while a vector of the same priority, raised
\* later and never re-registered, stays pending
C37_Witness ==
    /\ last.op = "ic.update"
    /\ last.calls # <<>>
    /\ objs["log"].moved = {}
    /\ objs["ic"].interrupts[last.calls[1]].count = 1
    /\ \E v \in Range(objs["ic"].pending_interrupts) :
           objs["ic"].interrupts[v].priority =
               objs["ic"].interrupts[last.calls[1]].priority

(***************************************************************************)
(* Further generator properties                                            *)
(***************************************************************************)
\* C38: an update of an enabled generator ends after at most one firing
\* per period covered by the accumulated time, and when it returns with
\* the fire limit not reached the accumulated time is at least 0 and less
\* than one period; an update of a disabled generator changes nothing.
C38_EnabledUpdateLeavesLessThanAPeriod ==
    [][(GenUpdated /\ last'.ret = "none") =>
           LET g == objs["gen"]
               after == objs'["gen"]
           IN  /\ Len(last'.calls) <=
                      (g.elapsed_time + last'.arg * MsPerSecond) \div g.period_ms
               /\ (g.enabled /\ ~PeriodicInterruptGenerator_exhausted(after)) =>
                      /\ 0 <= after.elapsed_time
                      /\ after.elapsed_time < after.period_ms
               /\ ~g.enabled => after = g /\ last'.calls = <<>>]_vars

\* C38 as claimed: every update that returns with the fire limit not
\* reached leaves an accumulated time of at least 0 and less than one
\* period.
C38_UpdateLeavesLessThanAPeriod ==
    [][(GenUpdated /\ last'.ret = "none") =>
           LET g == objs["gen"]
               after == objs'["gen"]
           IN  /\ Len(last'.calls) <=
                      (g.elapsed_time + last'.arg * MsPerSecond) \div g.period_ms
               /\ ~PeriodicInterruptGenerator_exhausted(after) =>
                      /\ 0 <= after.elapsed_time
                      /\ after.elapsed_time < after.period_ms]_vars

\* an update over one period and a half fired once, did not reach the limit
\* and left half a period
C38_Witness ==
    /\ last.op = "gen.update"
    /\ objs["gen"].enabled
    /\ last.ret = "none"
    /\ last.calls # <<>>
    /\ ~PeriodicInterruptGenerator_exhausted(objs["gen"])
    /\ objs["gen"].elapsed_time > 0
    /\ objs["gen"].elapsed_time < objs["gen"].period_ms

(***************************************************************************)
(* The enabled flag of a vector and dispatch                               *)
(***************************************************************************)
\* the vectors the update just made dispatched
DispatchedNow ==
    {v \in DOMAIN objs["ic"].interrupts :
        objs'["ic"].interrupts[v].count = objs["ic"].interrupts[v].count + 1}

\* C39: raise_interrupt makes a vector pending only if its enabled flag and
\* the flag of the controller are true; an update dispatches only pending
\* vectors, and it dispatches one whenever the controller is enabled and
\* idle and a vector is pending, whatever the enabled flags of the pending
\* vectors are at that moment.
C39_EnabledTestedAtRaiseOnly ==
    [][LET c == objs["ic"]
       IN  /\ (/\ last'.op = "ic.raise_interrupt"
               /\ objs'["ic"].pending_interrupts # c.pending_interrupts) =>
                  c.interrupt_enabled /\ c.interrupts[last'.arg].enabled
           /\ IcUpdated =>
                  /\ DispatchedNow \subseteq Range(c.pending_interrupts)
                  /\ (/\ c.interrupt_enabled
                      /\ c.pending_interrupts # <<>>
                      /\ c.active_interrupt = NoVector) =>
                         DispatchedNow # {}]_vars

\* C39 as claimed: an update dispatches a vector only if the enabled flag
\* of the vector is true at that moment.
C39_DispatchOnlyEnabled ==
    [][IcUpdated =>
           \A v \in DispatchedNow : objs["ic"].interrupts[v].enabled]_vars

\* an update called the handler of a vector that had been disabled after it
\* was raised
C39_Witness ==
    /\ last.op = "ic.update"
    /\ last.calls # <<>>
    /\ ~objs["ic"].interrupts[last.calls[1]].enabled
    /\ objs["ic"].interrupts[last.calls[1]].count > 0

\* ---------------------------------------------------------------------------
\* Task (business/lifecycle.py)
\* ---------------------------------------------------------------------------

TaskStates ==
    {"created", "configured", "ready", "running", "paused", "terminated",
     "archived", "destroyed", "error"}

TaskEvent_new(event_type, state_from, state_to, message) ==
    [event_type |-> event_type, state_from |-> state_from,
     state_to |-> state_to, message |-> message]

\* _record_event appends one event to the list of the task.
Task_record_event(t, event_type, state_from, state_to, message) ==
    [t EXCEPT !.events =
        Append(@, TaskEvent_new(event_type, state_from, state_to, message))]

\* The configuration holds the resources (their cpu_cores here) and the keys
\* of the environment and metadata dictionaries.
TaskConfig_new == [cpu_cores |-> 1, environment |-> {}, metadata |-> {}]

Task_new ==
    Task_record_event(
        [kind |-> "task", state |-> "created", config |-> TaskConfig_new,
         started |-> FALSE, terminated |-> FALSE, events |-> <<>>],
        "create", "created", "created", "")

\* What the host passes under one key of config_updates: the key is absent,
\* holds a value of the expected shape, or holds one the update raises on (an
\* unknown field of ResourceRequirements, a value that is not a mapping).
UpdateKinds == {"absent", "valid", "invalid"}

\* The three steps of the try block, in order; each returns the task and
\* whether the step raised. A step that raised leaves the earlier steps done.
Task_apply_resources(t, updates) ==
    IF updates.resources = "absent" THEN [t |-> t, raised |-> FALSE]
    ELSE IF updates.resources = "invalid" THEN [t |-> t, raised |-> TRUE]
    ELSE [t |-> [t EXCEPT !.config.cpu_cores = 2], raised |-> FALSE]

Task_apply_environment(t, updates) ==
    IF updates.environment = "absent" THEN [t |-> t, raised |-> FALSE]
    ELSE IF updates.environment = "invalid" THEN [t |-> t, raised |-> TRUE]
    ELSE [t |-> [t EXCEPT !.config.environment = @ \cup {"MODE"}],
          raised |-> FALSE]

Task_apply_metadata(t, updates) ==
    IF updates.metadata = "absent" THEN [t |-> t, raised |-> FALSE]
    ELSE IF updates.metadata = "invalid" THEN [t |-> t, raised |-> TRUE]
    ELSE [t |-> [t EXCEPT !.config.metadata = @ \cup {"owner"}],
          raised |-> FALSE]

\* configure: returns the task and the value returned.
Task_configure(t, updates) ==
    IF t.state \notin {"created", "configured"} THEN [t |-> t, ret |-> FALSE]
    ELSE
        LET r1 == Task_apply_resources(t, updates)
            r2 == IF r1.raised THEN r1 ELSE Task_apply_environment(r1.t, updates)
            r3 == IF r2.raised THEN r2 ELSE Task_apply_metadata(r2.t, updates)
        IN  IF r3.raised
            THEN [t |-> Task_record_event(r3.t, "configure_error", r3.t.state,
                                          "error", "TypeError"),
                  ret |-> FALSE]
            ELSE [t |-> Task_record_event(
                            [r3.t EXCEPT !.state = "configured"],
                            "configure", t.state, "configured", ""),
                  ret |-> TRUE]

\* The body shared by start, pause, resume, terminate, archive and destroy
\* once the guard has passed.
Task_transition(t, event_type, state_to) ==
    [t |-> Task_record_event([t EXCEPT !.state = state_to],
                             event_type, t.state, state_to, ""),
     ret |-> TRUE]

Task_start(t) ==
    IF t.state \notin {"configured", "ready"} THEN [t |-> t, ret |-> FALSE]
    ELSE Task_transition([t EXCEPT !.started = TRUE], "start", "running")

Task_pause(t) ==
    IF t.state # "running" THEN [t |-> t, ret |-> FALSE]
    ELSE Task_transition(t, "pause", "paused")

Task_resume(t) ==
    IF t.state # "paused" THEN [t |-> t, ret |-> FALSE]
    ELSE Task_transition(t, "resume", "running")

Task_terminate(t) ==
    IF t.state \in {"terminated", "archived", "destroyed"}
    THEN [t |-> t, ret |-> FALSE]
    ELSE Task_transition([t EXCEPT !.terminated = TRUE], "terminate",
                         "terminated")

Task_archive(t) ==
    IF t.state # "terminated" THEN [t |-> t, ret |-> FALSE]
    ELSE Task_transition(t, "archive", "archived")

Task_destroy(t) ==
    IF t.state = "destroyed" THEN [t |-> t, ret |-> FALSE]
    ELSE Task_transition(t, "destroy", "destroyed")

\* --- a host that drives one task ---

\* One call of the host on the task; r is what the method returned.
OnTask(r, op) ==
    /\ Len(r.t.events) <= MaxEvents
    /\ objs' = [objs EXCEPT !["task"] = r.t]
    /\ last' = Call(op, "", 0, r.ret, <<>>)
    /\ UNCHANGED <<state, start_time, models, elapsed_time, simulation_time,
                   update_count, simulation_speed, snapshot, ran>>

ConfigUpdates ==
    [resources : UpdateKinds, environment : UpdateKinds, metadata : UpdateKinds]

task_configure(config_updates) ==
    OnTask(Task_configure(objs["task"], config_updates), "task.configure")

task_start == OnTask(Task_start(objs["task"]), "task.start")

task_pause == OnTask(Task_pause(objs["task"]), "task.pause")

task_resume == OnTask(Task_resume(objs["task"]), "task.resume")

task_terminate == OnTask(Task_terminate(objs["task"]), "task.terminate")

task_archive == OnTask(Task_archive(objs["task"]), "task.archive")

task_destroy == OnTask(Task_destroy(objs["task"]), "task.destroy")

InitTask ==
    /\ state = "created"
    /\ start_time = 0
    /\ models = <<>>
    /\ elapsed_time = 0
    /\ simulation_time = 0
    /\ update_count = 0
    /\ simulation_speed = 1
    /\ objs = [id \in ObjIds \cup {"task"} |->
                  IF id = "task" THEN Task_new ELSE InitObjs[id]]
    /\ snapshot = NoSnapshot
    /\ last = Call("new", "", 0, "none", <<>>)
    /\ ran = 0

NextTask ==
    \/ \E config_updates \in ConfigUpdates : task_configure(config_updates)
    \/ task_start
    \/ task_pause
    \/ task_resume
    \/ task_terminate
    \/ task_archive
    \/ task_destroy

SpecTask == InitTask /\ [][NextTask]_vars

\* ---------------------------------------------------------------------------
\* Task properties
\* ---------------------------------------------------------------------------

LastEvent(t) == t.events[Len(t.events)]

\* C40: after every call on a task the state_to of the most recently recorded
\* event is the state of the task, and a call that returned false has
\* recorded no event and changed no state.
C40_LastEventIsCurrentState ==
    [][/\ LastEvent(objs'["task"]).state_to = objs'["task"].state
       /\ last'.ret = FALSE =>
              /\ objs'["task"].events = objs["task"].events
              /\ objs'["task"].state = objs["task"].state]_vars
====
